---------------------------- MODULE Spec2Model ----------------------------
(***************************************************************************)
(* Model of the feedback / conversation / auth bookkeeping of the agent    *)
(* application: FeedbackService (parser and submitter), ConversationStore, *)
(* ConversationManager, CLIInterface, ThreadManager and AuthStore.         *)
(*                                                                         *)
(* Text is modelled as a sequence of one-character strings, so that the    *)
(* regular expressions of parseUserFeedback are matched character by       *)
(* character as the JavaScript engine matches them (backtracking, greedy   *)
(* quantifiers, leftmost match for an unanchored pattern).                 *)
(***************************************************************************)
EXTENDS Integers, Sequences, FiniteSets, TLC

VARIABLES
    \* ---- parseUserFeedback call (FeedbackService.parseUserFeedback) ----
    userInput,      \* the text handed to parseUserFeedback
    inputShape,     \* how the text was written: [form, rating, comment]
    parsed,         \* the value returned by parseUserFeedback
    parsePc,        \* "call" before the call, "done" after it
    \* ---- FeedbackService and the remote feedback store ----
    apiKey,          \* process.env.LANGCHAIN_API_KEY is set
    langsmithClient, \* this.langsmithClient is not null
    isInitialized,   \* this.isInitialized
    pendingFeedback, \* this.pendingFeedback, in insertion order
    remoteFeedback,  \* the records the remote store accepted, in order
    fbClock,         \* Date.now() as the feedback service reads it
    fbCall,          \* the arguments and environment of the last call
    fbResult,        \* what the last collectFeedback call returned
    fbLog,           \* the steps the last collectFeedback call logged
    \* ---- data/conversations.json and the clock ----
    conversationsFile, \* the persisted conversation document
    now,               \* Date.now(), in milliseconds
    storeCall,         \* the last ConversationStore call and its result
    \* ---- ConversationManager, CLIInterface, ThreadManager ----
    currentMessages,       \* conversationManager.currentMessages
    currentConversationId, \* conversationManager.currentConversationId
    isWaitingForFeedback,
    isWaitingForComment,
    pendingRating,         \* 0 is null
    isRunning,
    isReady,               \* threadManager.isInitialized
    currentThreadId,       \* threadManager.currentThreadId
    cliCall,               \* the last handler that ran and what it did
    inFlight,              \* the workflow invocation a turn is waiting for
    \* ---- data/auth.json and the authManager cache ----
    authFile,
    authData,
    authCall,              \* the last auth call and its result
    \* ---- one run of the workflow graph, from resultNode on ----
    workflow,              \* the graph state, the next node, the steps made
    \* ---- the HTTP backend ----
    httpRequests           \* the requests the tools have sent, in order

parseVars == <<userInput, inputShape, parsed, parsePc>>

fbVars == <<apiKey, langsmithClient, isInitialized, pendingFeedback,
            remoteFeedback, fbClock, fbCall, fbResult, fbLog>>

storeVars == <<conversationsFile, now, storeCall>>

cliVars ==
    <<currentMessages, currentConversationId, isWaitingForFeedback,
      isWaitingForComment, pendingRating, isRunning, isReady,
      currentThreadId, cliCall, inFlight>>

authVars == <<authFile, authData, authCall>>

wfVars == <<workflow>>
httpVars == <<httpRequests>>

vars == <<parseVars, fbVars, storeVars, cliVars, authVars, wfVars, httpVars>>

-----------------------------------------------------------------------------
(***************************************************************************)
(* Characters                                                              *)
(***************************************************************************)

\* \d of a JavaScript regular expression (no unicode flag): ASCII digits.
Digits == {"0", "1", "2", "3", "4", "5", "6", "7", "8", "9"}

\* \s of a JavaScript regular expression, as far as the inputs use it.
WhiteSpace == {" ", "\t", "\n", "\r"}

\* Characters the dot does not match.
LineTerminators == {"\n", "\r"}

\* The en dash U+2013 is written "ndash"; "-" is the hyphen-minus.
EnDash == "ndash"

\* Case folding of the /i flag for the letters the patterns and inputs use.
LowerOf(c) ==
    CASE c = "R" -> "r" [] c = "A" -> "a" [] c = "T" -> "t" [] c = "I" -> "i"
      [] c = "N" -> "n" [] c = "G" -> "g" [] c = "S" -> "s" [] c = "C" -> "c"
      [] c = "O" -> "o" [] c = "E" -> "e"
      [] OTHER -> c

\* parseInt of a one-digit string.
parseInt(c) ==
    CASE c = "0" -> 0 [] c = "1" -> 1 [] c = "2" -> 2 [] c = "3" -> 3
      [] c = "4" -> 4 [] c = "5" -> 5 [] c = "6" -> 6 [] c = "7" -> 7
      [] c = "8" -> 8 [] c = "9" -> 9

RECURSIVE TrimLeft(_)
TrimLeft(s) ==
    IF s # <<>> /\ Head(s) \in WhiteSpace THEN TrimLeft(Tail(s)) ELSE s

RECURSIVE TrimRight(_)
TrimRight(s) ==
    IF s # <<>> /\ s[Len(s)] \in WhiteSpace
    THEN TrimRight(SubSeq(s, 1, Len(s) - 1))
    ELSE s

\* Trim as it would be with trimStart in place of trim.
Trim_LeftOnly(s) == TrimLeft(s)

\* String.prototype.trim
Trim(s) == TrimRight(TrimLeft(s))

-----------------------------------------------------------------------------
(***************************************************************************)
(* Regular expressions: abstract syntax and a backtracking matcher.        *)
(* Match(re, s, i, caps) is the list of the ways re matches s from         *)
(* offset i, in the order in which a backtracking engine tries them; each  *)
(* is [pos, caps]: the offset after the match and the capture groups.      *)
(***************************************************************************)

Set(S)     == [k |-> "set", cs |-> S]
Chr(c, ic) == [k |-> "chr", c |-> c, ic |-> ic]
Dot        == [k |-> "dot"]
Bol        == [k |-> "bol"]
Eol        == [k |-> "eol"]
Cat(a, b)  == [k |-> "cat", l |-> a, r |-> b]
Alt(a, b)  == [k |-> "alt", l |-> a, r |-> b]
Opt(e)     == [k |-> "opt", e |-> e]
Star(e)    == [k |-> "star", e |-> e]
Plus(e)    == Cat(e, Star(e))
Grp(n, e)  == [k |-> "grp", n |-> n, e |-> e]

RECURSIVE Lit(_, _)
\* A literal word; ic is the /i flag.
Lit(w, ic) ==
    IF Len(w) = 1 THEN Chr(w[1], ic) ELSE Cat(Chr(w[1], ic), Lit(Tail(w), ic))

NoCapture == [def |-> FALSE, txt |-> <<>>]
NoCaptures == <<NoCapture, NoCapture>>

RECURSIVE Match(_, _, _, _)
RECURSIVE MatchEach(_, _, _, _)

\* re tried after each of the matches rs[j..], in order.
MatchEach(re, s, rs, j) ==
    IF j > Len(rs) THEN <<>>
    ELSE Match(re, s, rs[j].pos, rs[j].caps) \o MatchEach(re, s, rs, j + 1)

Match(re, s, i, caps) ==
    LET here == <<[pos |-> i, caps |-> caps]>>
        next == <<[pos |-> i + 1, caps |-> caps]>>
    IN  CASE re.k = "set" ->
                IF i < Len(s) /\ s[i + 1] \in re.cs THEN next ELSE <<>>
          [] re.k = "chr" ->
                IF i < Len(s)
                   /\ (s[i + 1] = re.c
                        \/ (re.ic /\ LowerOf(s[i + 1]) = LowerOf(re.c)))
                THEN next ELSE <<>>
          [] re.k = "dot" ->
                IF i < Len(s) /\ s[i + 1] \notin LineTerminators
                THEN next ELSE <<>>
          [] re.k = "bol" -> IF i = 0 THEN here ELSE <<>>
          [] re.k = "eol" -> IF i = Len(s) THEN here ELSE <<>>
          [] re.k = "cat" -> MatchEach(re.r, s, Match(re.l, s, i, caps), 1)
          [] re.k = "alt" -> Match(re.l, s, i, caps) \o Match(re.r, s, i, caps)
          [] re.k = "opt" -> Match(re.e, s, i, caps) \o here
          [] re.k = "star" ->
                LET once == SelectSeq(Match(re.e, s, i, caps),
                                      LAMBDA r : r.pos > i)
                IN  MatchEach(re, s, once, 1) \o here
          [] re.k = "grp" ->
                LET inner == Match(re.e, s, i, caps)
                IN  [j \in 1..Len(inner) |->
                        [pos  |-> inner[j].pos,
                         caps |-> [inner[j].caps EXCEPT ![re.n] =
                                     [def |-> TRUE,
                                      txt |-> SubSeq(s, i + 1, inner[j].pos)]]]]

RECURSIVE ExecFrom(_, _, _)
\* String.prototype.match without the g flag: the first start offset at
\* which the pattern matches, and at it the first way that succeeds.
ExecFrom(re, s, start) ==
    IF start > Len(s) THEN [matched |-> FALSE, caps |-> NoCaptures]
    ELSE LET ways == Match(re, s, start, NoCaptures)
         IN  IF ways # <<>>
             THEN [matched |-> TRUE, caps |-> ways[1].caps]
             ELSE ExecFrom(re, s, start + 1)

Exec(re, s) == ExecFrom(re, s, 0)

-----------------------------------------------------------------------------
(***************************************************************************)
(* FeedbackService.parseUserFeedback                                       *)
(***************************************************************************)

Dash == Set({"-", EnDash})
Ws   == Star(Set(WhiteSpace))

\* (?:\s*[-–]\s*(.+))?
CommentPart == Opt(Cat(Ws, Cat(Dash, Cat(Ws, Grp(2, Plus(Dot))))))

\* /^(\d)[\/\s]*(?:stars?|\/5)?(?:\s*[-–]\s*(.+))?$/i
Pattern1 ==
    Cat(Bol, Cat(Grp(1, Set(Digits)),
    Cat(Star(Set({"/"} \cup WhiteSpace)),
    Cat(Opt(Alt(Cat(Lit(<<"s", "t", "a", "r">>, TRUE), Opt(Chr("s", TRUE))),
                Lit(<<"/", "5">>, TRUE))),
    Cat(CommentPart, Eol)))))

\* /(?:rating|score):\s*(\d)(?:\s*[-–]\s*(.+))?$/i
Pattern2 ==
    Cat(Alt(Lit(<<"r", "a", "t", "i", "n", "g">>, TRUE),
            Lit(<<"s", "c", "o", "r", "e">>, TRUE)),
    Cat(Chr(":", TRUE),
    Cat(Ws,
    Cat(Grp(1, Set(Digits)),
    Cat(CommentPart, Eol)))))

\* /^(\d)\s*[-–]\s*(.+)$/
Pattern3 ==
    Cat(Bol, Cat(Grp(1, Set(Digits)),
    Cat(Ws, Cat(Dash, Cat(Ws, Cat(Grp(2, Plus(Dot)), Eol))))))

\* /^(\d)$/
Pattern4 == Cat(Bol, Cat(Grp(1, Set(Digits)), Eol))

\* The range check as it would be with 0 let through.
ValidRating_FromZero(rating) == rating >= 0 /\ rating <= 5

\* rating >= 1 && rating <= 5
ValidRating(rating) == rating >= 1 /\ rating <= 5

\* The parse-failure sentinel (null) and a parsed { rating, comment }.
NullFeedback == [isNull |-> TRUE, rating |-> 0, comment |-> <<>>]
Feedback(rating, comment) ==
    [isNull |-> FALSE, rating |-> rating, comment |-> comment]

\* match[1] as a number, and match[2] || "".
RatingOf(m)  == parseInt(m.caps[1].txt[1])
CommentOf(m) == IF m.caps[2].def THEN m.caps[2].txt ELSE <<>>

parseUserFeedback(text) ==
    LET input == Trim(text)
        m1 == Exec(Pattern1, input)
        m2 == Exec(Pattern2, input)
        m3 == Exec(Pattern3, input)
        m4 == Exec(Pattern4, input)
    IN  IF m1.matched /\ ValidRating(RatingOf(m1))
        THEN Feedback(RatingOf(m1), CommentOf(m1))
        ELSE IF m2.matched /\ ValidRating(RatingOf(m2))
        THEN Feedback(RatingOf(m2), CommentOf(m2))
        ELSE IF m3.matched /\ ValidRating(RatingOf(m3))
        THEN Feedback(RatingOf(m3), m3.caps[2].txt)
        ELSE IF m4.matched /\ ValidRating(RatingOf(m4))
        THEN Feedback(RatingOf(m4), <<>>)
        ELSE NullFeedback


-----------------------------------------------------------------------------
(***************************************************************************)
(* Inputs of parseUserFeedback.  An input is either written in one of the  *)
(* four accepted forms (inputShape.form in 1..4, with the rating and the   *)
(* comment it was written with) or is free text made of a few tokens       *)
(* (form 0).  Inputs are single lines, as readline delivers them.          *)
(***************************************************************************)

\* Longest free text, in tokens.
MaxTokens == 3

RatingChars == {"1", "2", "3", "4", "5"}

Gaps == {<<>>, <<" ">>}

Units == {<<>>, <<"s", "t", "a", "r", "s">>, <<"s", "t", "a", "r">>, <<"S", "T", "A", "R", "S">>, <<"/", "5">>}

RatingWords == {<<"R", "a", "t", "i", "n", "g", ":">>, <<"r", "a", "t", "i", "n", "g", ":">>, <<"S", "C", "O", "R", "E", ":">>, <<"S", "c", "o", "r", "e", ":">>}

Comments == {<<"o", "k">>, <<"7">>, <<"c", "o", "u", "l", "d", " ", "b", "e", " ", "m", "o", "r", "e", " ", "d", "e", "t", "a", "i", "l", "e", "d">>}

\* "- comment" with optional blanks around the dash.
CommentTails ==
    {[text |-> a \o <<d>> \o b \o c, comment |-> c] :
        a \in Gaps, d \in {"-", EnDash}, b \in Gaps, c \in Comments}

NoTail == [text |-> <<>>, comment |-> <<>>]

Shaped(form, r, text, comment) ==
    [text  |-> text,
     shape |-> [form |-> form, rating |-> parseInt(r), comment |-> comment]]

\* Form 1: digit, optional "stars" or "/5", optional "- comment".
Form1Inputs ==
    {Shaped(1, r, <<r>> \o g \o u \o t.text, t.comment) :
        r \in RatingChars, g \in Gaps, u \in Units,
        t \in CommentTails \cup {NoTail}}

\* Form 2: "Rating: N" or "Score: N" in any letter case, optional "- comment".
Form2Inputs ==
    {Shaped(2, r, w \o g \o <<r>> \o t.text, t.comment) :
        r \in RatingChars, w \in RatingWords, g \in Gaps,
        t \in CommentTails \cup {NoTail}}

\* Form 3: "N - comment".
Form3Inputs ==
    {Shaped(3, r, <<r>> \o t.text, t.comment) :
        r \in RatingChars, t \in CommentTails}

\* Form 4: a bare single digit.
Form4Inputs == {Shaped(4, r, <<r>>, <<>>) : r \in RatingChars}

\* The accepted forms, as typed: possibly with blanks around them.
FormInputs ==
    {[text |-> a \o x.text \o b, shape |-> x.shape] :
        x \in Form1Inputs \cup Form2Inputs \cup Form3Inputs \cup Form4Inputs,
        a \in Gaps, b \in Gaps}

Tokens ==
    {<<"4">>, <<"7">>, <<"0">>, <<" ">>, <<"-">>, <<"/", "5">>,
     <<"s", "t", "a", "r", "s">>, <<"r", "a", "t", "i", "n", "g", ":">>, <<"b", "a", "n", "a", "n", "a">>}

RECURSIVE TokenTexts(_)
TokenTexts(n) ==
    IF n = 0 THEN {<<>>}
    ELSE LET shorter == TokenTexts(n - 1)
         IN  shorter \cup {s \o t : s \in shorter, t \in Tokens}

FreeInputs ==
    {[text |-> s, shape |-> [form |-> 0, rating |-> 0, comment |-> <<>>]] :
        s \in TokenTexts(MaxTokens)}

\* A digit outside 1-5 with a comment that itself reads "Rating: N".
RefusedDigitInputs ==
    {[text |-> <<d>> \o a \o <<"-">> \o b \o x.text,
      shape |-> [form |-> 0, rating |-> 0, comment |-> <<>>]] :
        d \in {"0", "7"}, a \in Gaps, b \in Gaps,
        x \in {y \in Form2Inputs : y.shape.comment = <<>>}}

ParseInputs == FormInputs \cup FreeInputs \cup RefusedDigitInputs

ParseIdle ==
    /\ userInput = <<>>
    /\ inputShape = [form |-> 0, rating |-> 0, comment |-> <<>>]
    /\ parsed = NullFeedback
    /\ parsePc = "idle"

ParseInit ==
    /\ \E x \in ParseInputs :
          /\ userInput = x.text
          /\ inputShape = x.shape
    /\ parsed = NullFeedback
    /\ parsePc = "call"

\* One call of feedbackService.parseUserFeedback(userInput).
ParseUserFeedback ==
    /\ parsePc = "call"
    /\ parsed' = parseUserFeedback(userInput)
    /\ parsePc' = "done"
    /\ UNCHANGED <<userInput, inputShape>>
    /\ UNCHANGED <<fbVars, storeVars, cliVars, authVars, wfVars, httpVars>>

ParseNext == ParseUserFeedback

-----------------------------------------------------------------------------
(***************************************************************************)
(* Claims about parseUserFeedback                                          *)
(***************************************************************************)

HasChar(s, S) == \E i \in 1..Len(s) : s[i] \in S

\* C1: for every rating r in 1..5 and every input written in one of the
\* four accepted forms, parseUserFeedback returns rating r and the comment
\* that follows the dash (the empty string when there is none).
C1_AcceptedFormsParse ==
    (parsePc = "done" /\ inputShape.form \in 1..4)
        => parsed = Feedback(inputShape.rating, inputShape.comment)

\* The example of the specification: "4 - could be more detailed".
C1_Witness ==
    /\ parsePc = "done"
    /\ userInput = <<"4", " ", "-", " ">> \o <<"c", "o", "u", "l", "d", " ", "b", "e", " ", "m", "o", "r", "e", " ", "d", "e", "t", "a", "i", "l", "e", "d">>
    /\ parsed = Feedback(4, <<"c", "o", "u", "l", "d", " ", "b", "e", " ", "m", "o", "r", "e", " ", "d", "e", "t", "a", "i", "l", "e", "d">>)

\* C2 as stated: an input with no digit, or with a digit outside 1-5, is a
\* parse failure.
C2_AnyBadDigitFails ==
    (parsePc = "done"
        /\ (~HasChar(userInput, Digits)
             \/ HasChar(userInput, Digits \ RatingChars)))
        => parsed.isNull

\* C2 as amended: an input with no digit in 1-5 (no digit at all, or only
\* digits outside 1-5) is a parse failure, and a returned rating is a digit
\* of the input, never a clamped or guessed value.
C2_NoRatingDigitFails ==
    parsePc = "done" =>
        /\ ~HasChar(userInput, RatingChars) => parsed.isNull
        /\ ~parsed.isNull =>
              /\ parsed.rating \in 1..5
              /\ \E i \in 1..Len(userInput) :
                    /\ userInput[i] \in RatingChars
                    /\ parseInt(userInput[i]) = parsed.rating

\* The first of the four forms whose template matches the input, 0 when
\* none does.
FirstMatching(input) ==
    IF Exec(Pattern1, input).matched THEN 1
    ELSE IF Exec(Pattern2, input).matched THEN 2
    ELSE IF Exec(Pattern3, input).matched THEN 3
    ELSE IF Exec(Pattern4, input).matched THEN 4
    ELSE 0

\* The outcome when form k alone decides: its rating and comment when the
\* rating is in range, a parse failure otherwise.
DecidedBy(k, input) ==
    LET m == Exec(CASE k = 1 -> Pattern1 [] k = 2 -> Pattern2
                    [] k = 3 -> Pattern3 [] OTHER -> Pattern4, input)
    IN  IF k = 0 \/ ~ValidRating(RatingOf(m)) THEN NullFeedback
        ELSE Feedback(RatingOf(m), CommentOf(m))

\* C14: the forms are checked in the order 1, 2, 3, 4 and the first form
\* whose template matches the input decides the outcome; no later form is
\* consulted once an earlier one has matched.
C14_FirstMatchDecides ==
    parsePc = "done" =>
        parsed = DecidedBy(FirstMatching(Trim(userInput)), Trim(userInput))

\* "7 stars": a digit, but none in 1-5, is refused.
C2_Witness ==
    /\ parsePc = "done"
    /\ userInput = <<"7">> \o <<"s", "t", "a", "r", "s">>
    /\ parsed.isNull


-----------------------------------------------------------------------------
(***************************************************************************)
(* FeedbackService: initialize, run id resolution, collectFeedback.        *)
(* The service is the record [client, inited, pending, remote, clock];     *)
(* the remote store is reached through langsmithClient.createFeedback,     *)
(* whose outcome ("ok" or the kind of error it throws) is an input.        *)
(***************************************************************************)

NoId == [kind |-> "none", n |-> 0]
LocalId(n)  == [kind |-> "local", n |-> n]
RemoteId(n) == [kind |-> "remote", n |-> n]

\* Identifiers of runs, threads and conversations.  null is NullId;
\* Date.now().toString() is [kind "ms"]; `thread-${Date.now()}` is
\* [kind "thread"]; a text in UUID format is [kind "uuid"]; any other text
\* is [kind "text"].
NullId == [kind |-> "null", n |-> 0]
MsId(t) == [kind |-> "ms", n |-> t]
ThreadId(t) == [kind |-> "thread", n |-> t]
Uuid(n) == [kind |-> "uuid", n |-> n]
TextId(n) == [kind |-> "text", n |-> n]

NullRunId == NullId

\* A threadManager argument that was not passed.
NoThreadManager == [present |-> FALSE, currentThreadId |-> NullId]
ThreadManagerAt(id) == [present |-> TRUE, currentThreadId |-> id]

\* The UUID test of lines 815 and 849.
uuidRegexTest(id) == id.kind = "uuid"

\* generateUUID: a random UUID, unlike any that names a trace or a thread.
generateUUID == Uuid(0)

EmptyPending == <<>>

FeedbackServiceNew ==
    [client |-> FALSE, inited |-> FALSE, pending |-> EmptyPending,
     remote |-> <<>>, clock |-> 0, log |-> <<>>]

\* FeedbackService.initialize; env.ctorThrows: new Client(...) throws.
initialize(svc, env) ==
    IF svc.inited THEN svc
    ELSE IF env.apiKey /\ ~env.ctorThrows
         THEN [svc EXCEPT !.client = TRUE, !.inited = TRUE]
         ELSE [svc EXCEPT !.inited = TRUE]

\* getCurrentRunId: the id of the active trace context when it is a UUID.
getCurrentRunId(env) ==
    IF env.traceId # NullId /\ uuidRegexTest(env.traceId)
    THEN env.traceId
    ELSE NullRunId

getRunIdFromContext(threadManager, env) ==
    IF getCurrentRunId(env) # NullRunId THEN getCurrentRunId(env)
    ELSE IF threadManager.present /\ threadManager.currentThreadId # NullId
    THEN IF uuidRegexTest(threadManager.currentThreadId)
         THEN threadManager.currentThreadId
         ELSE generateUUID
    ELSE generateUUID

\* The conversion as it would be on a scale of fifths.
convertStarRatingToScore_Fifths(starRating) == (starRating * 100) \div 5

\* The score (starRating - 1) / 4, in hundredths.
convertStarRatingToScore(starRating) == ((starRating - 1) * 100) \div 4

\* The confirmation as it would be without the star count.
SubmittedMessage_NoStars(starRating) ==
    <<"Thank you! Your rating has been submitted to improve our AI system.">>

\* Template texts are sequences of their parts; a number is interpolated
\* with ToString.
SubmittedMessage(starRating) ==
    <<"Thank you! Your ", ToString(starRating),
      "-star rating has been submitted to improve our AI system.">>

FailedMessage(starRating, err) ==
    <<"Your ", ToString(starRating),
      "-star rating has been recorded locally (LangSmith submission failed: ",
      err, ").">>

LocalMessage(starRating, reason) ==
    <<"Thank you! Your ", ToString(starRating),
      "-star rating has been recorded locally (", reason, ").">>

\* The comment sent to the remote store.
RemoteComment(starRating, comment) ==
    IF comment # <<>>
    THEN <<ToString(starRating), "/5 stars: ">> \o comment
    ELSE <<ToString(starRating), "/5 stars">>

Thrown(msg) ==
    [threw |-> TRUE, error |-> msg, success |-> FALSE, submitted |-> FALSE,
     runId |-> NullRunId, feedbackId |-> NoId, localId |-> NoId,
     feedback |-> [starRating |-> 0], message |-> <<>>]

Returned(submitted, runId, feedbackId, localId, feedback, err, message) ==
    [threw |-> FALSE, error |-> err, success |-> TRUE, submitted |-> submitted,
     runId |-> runId, feedbackId |-> feedbackId, localId |-> localId,
     feedback |-> feedback, message |-> message]

\* langsmithClient.createFeedback(runId, key, {...}) accepted by the store.
RemoteRecord(svc, feedback) ==
    [id |-> RemoteId(Len(svc.remote) + 1),
     runId |-> feedback.runId, key |-> feedback.key,
     score |-> feedback.score,
     value |-> <<ToString(feedback.starRating), "_stars">>,
     comment |-> RemoteComment(feedback.starRating, feedback.comment),
     original_rating |-> feedback.starRating,
     thread_id |-> feedback.threadId]

\* pendingFeedback.set as it would be if only the latest entry were kept.
PendingSet_OnlyLatest(pending, localId, feedback) ==
    <<[localId |-> localId, feedback |-> feedback]>>

\* The test of line 966 as it would be without the client.
CanSubmit_NoClient(svc, runId) == runId # NullRunId

\* this.langsmithClient && runId
CanSubmit(svc, runId) == svc.client /\ runId # NullRunId

\* The console lines that mark the steps of a call.
Logged(svc, line) == [svc EXCEPT !.log = Append(svc.log, line)]

\* pendingFeedback.set as it would be if the entry were not kept.
PendingSet_Dropped(pending, localId, feedback) == pending

\* pendingFeedback.set(localId, feedback)
PendingSet(pending, localId, feedback) ==
    IF \E j \in 1..Len(pending) : pending[j].localId = localId
    THEN [j \in 1..Len(pending) |->
            IF pending[j].localId = localId
            THEN [localId |-> localId, feedback |-> feedback]
            ELSE pending[j]]
    ELSE Append(pending, [localId |-> localId, feedback |-> feedback])

RECURSIVE collectFeedback(_, _, _, _)
\* collectFeedback(feedbackData, threadManager) on the service svc, in the
\* environment env.  The value is [svc, result]: the service afterwards
\* and what the call returned (or that it threw).
collectFeedback(svc, feedbackData, threadManager, env) ==
    LET starRating == feedbackData.starRating
    IN
    IF ~ValidRating(starRating)
    THEN [svc |-> svc,
          result |-> Thrown("Star rating must be between 1 and 5")]
    ELSE
    LET score == convertStarRatingToScore(starRating)
        runId == IF feedbackData.runId # NullRunId
                 THEN feedbackData.runId
                 ELSE getRunIdFromContext(threadManager, env)
        feedback ==
            [starRating |-> starRating,
             score      |-> score,
             comment    |-> feedbackData.comment,
             key        |-> IF feedbackData.key # "" THEN feedbackData.key
                            ELSE "user_rating",
             runId      |-> runId,
             timestamp  |-> svc.clock,
             threadId   |-> IF threadManager.present
                            THEN threadManager.currentThreadId ELSE NullId]
        localId == LocalId(svc.clock)
        ticked  == [svc EXCEPT !.clock = svc.clock + 1,
                               !.log = IF CanSubmit(svc, runId)
                                       THEN Append(svc.log, "Attempting to submit")
                                       ELSE svc.log]
    IN
    IF CanSubmit(svc, runId)
    THEN IF env.remote = "ok"
         THEN \* createFeedback resolved
              LET rec == RemoteRecord(svc, feedback)
              IN  [svc |-> [ticked EXCEPT !.remote = Append(svc.remote, rec)],
                   result |-> Returned(TRUE, runId, rec.id, NoId, feedback,
                                       "", SubmittedMessage(starRating))]
         ELSE \* createFeedback threw: fall back to local storage
              [svc |-> [ticked EXCEPT
                          !.pending = PendingSet(svc.pending, localId, feedback)],
               result |-> Returned(FALSE, NullRunId, NoId, localId, feedback,
                                   env.remote,
                                   FailedMessage(starRating, env.remote))]
    ELSE \* store locally, then try to initialize and retry once
         LET stored == [ticked EXCEPT
                          !.pending = PendingSet(svc.pending, localId, feedback)]
             reason == IF ~svc.client THEN "LangSmith not initialized"
                       ELSE "No run ID available"
             reinit == IF ~svc.client
                       THEN initialize(Logged(stored, "Attempting to re-initialize"),
                                       env)
                       ELSE stored
         IN  IF ~svc.client /\ CanSubmit(reinit, runId)
             THEN collectFeedback(Logged(reinit, "Retrying"), feedbackData,
                                  NoThreadManager, env)
             ELSE [svc |-> reinit,
                   result |-> Returned(FALSE, NullRunId, NoId, localId,
                                       feedback, "",
                                       LocalMessage(starRating, reason))]

\* collectFeedbackWithContext as it would be if it submitted nothing.
collectFeedbackWithContext_Skipped(svc, feedbackData, threadManager, env) ==
    [svc |-> svc,
     result |-> Returned(FALSE, NullRunId, NoId, NoId,
                         [starRating |-> feedbackData.starRating], "", <<>>)]

\* collectFeedbackWithContext: collectFeedback run inside a traceable.
collectFeedbackWithContext(svc, feedbackData, threadManager, env) ==
    collectFeedback(svc, feedbackData, threadManager, env)

\* clearPendingFeedback
clearPendingFeedback(svc) == [svc EXCEPT !.pending = EmptyPending]


-----------------------------------------------------------------------------
(***************************************************************************)
(* The feedback service on its own: initialize and collectFeedback called  *)
(* in any order on a freshly constructed service.                          *)
(***************************************************************************)

\* Feedback objects created in one run of the model (the clock's last value).
MaxFeedbackClock == 2

\* feedbackData.starRating as callers pass it; 0 and 6 are out of range.
RatingInputs == 0..6

FbComments == {<<>>, <<"o", "k">>}

\* What createFeedback does: resolves, or throws an error of one kind.
RemoteErrors == {"network", "auth", "malformed response"}
RemoteOutcomes == {"ok"} \cup RemoteErrors

Svc ==
    [client |-> langsmithClient, inited |-> isInitialized,
     pending |-> pendingFeedback, remote |-> remoteFeedback,
     clock |-> fbClock, log |-> fbLog]

\* The service as a call of collectFeedback finds it.
SvcAtCall == [Svc EXCEPT !.log = <<>>]

SetSvc(svc) ==
    /\ langsmithClient' = svc.client
    /\ isInitialized' = svc.inited
    /\ pendingFeedback' = svc.pending
    /\ remoteFeedback' = svc.remote
    /\ fbClock' = svc.clock
    /\ fbLog' = svc.log

NoCall ==
    [made |-> FALSE, starRating |-> 0, comment |-> <<>>, remote |-> "ok",
     hadClient |-> FALSE, wasInitialized |-> FALSE, pendingBefore |-> 0,
     runId |-> NullRunId, threadManager |-> NoThreadManager,
     traceId |-> NullId, cleared |-> FALSE]

NoResult == [Thrown("") EXCEPT !.threw = FALSE]

\* The service after construction; the environment may hold an API key.
FbServiceInit ==
    /\ langsmithClient = FeedbackServiceNew.client
    /\ isInitialized = FeedbackServiceNew.inited
    /\ pendingFeedback = FeedbackServiceNew.pending
    /\ remoteFeedback = FeedbackServiceNew.remote
    /\ fbClock = FeedbackServiceNew.clock
    /\ fbLog = FeedbackServiceNew.log
    /\ fbCall = NoCall
    /\ fbResult = NoResult

FbIdle == apiKey = FALSE /\ FbServiceInit

FbInit == apiKey \in BOOLEAN /\ FbServiceInit

Env(remote, ctorThrows, traceId) ==
    [apiKey |-> apiKey, remote |-> remote, ctorThrows |-> ctorThrows,
     traceId |-> traceId]

\* feedbackService.initialize()
FbInitialize ==
    /\ \E ctorThrows \in BOOLEAN :
          SetSvc(initialize(Svc, Env("ok", ctorThrows, NullId)))
    /\ UNCHANGED <<apiKey, fbCall, fbResult>>
    /\ UNCHANGED <<parseVars, wfVars, httpVars, storeVars, cliVars, authVars>>

\* feedbackService.collectFeedback({starRating, comment}) with no run id,
\* no thread manager and no active trace context.
FbCollect ==
    /\ fbClock < MaxFeedbackClock
    /\ \E starRating \in RatingInputs, comment \in FbComments,
          remote \in RemoteOutcomes, ctorThrows \in BOOLEAN :
          LET data == [starRating |-> starRating, comment |-> comment,
                       key |-> "", runId |-> NullRunId]
              out  == collectFeedback(SvcAtCall, data, NoThreadManager,
                                      Env(remote, ctorThrows, NullId))
          IN  /\ SetSvc(out.svc)
              /\ fbResult' = out.result
              /\ fbCall' = [NoCall EXCEPT
                            !.made = TRUE, !.starRating = starRating,
                            !.comment = comment, !.remote = remote,
                            !.hadClient = langsmithClient,
                            !.wasInitialized = isInitialized,
                            !.pendingBefore = Len(pendingFeedback)]
    /\ UNCHANGED apiKey
    /\ UNCHANGED <<parseVars, wfVars, httpVars, storeVars, cliVars, authVars>>

FbNext == FbInitialize \/ FbCollect

\* feedbackData.runId as a caller passes it, the thread manager's current
\* thread id, and the id of the active trace context: none, a UUID, or a
\* text that is no UUID.
RunIdInputs == {NullRunId, Uuid(1)}
ThreadManagers ==
    {NoThreadManager, ThreadManagerAt(NullId), ThreadManagerAt(ThreadId(1)),
     ThreadManagerAt(Uuid(2))}
TraceIds == {NullId, Uuid(3), TextId(3)}

\* feedbackService.collectFeedback({starRating, runId}, threadManager)
\* under a trace context.
FbCollectInContext ==
    /\ fbClock < MaxFeedbackClock
    /\ \E starRating \in {0, 3}, remote \in {"ok", "network"},
          runId \in RunIdInputs, threadManager \in ThreadManagers,
          traceId \in TraceIds :
          LET data == [starRating |-> starRating, comment |-> <<>>,
                       key |-> "", runId |-> runId]
              out  == collectFeedback(SvcAtCall, data, threadManager,
                                      Env(remote, FALSE, traceId))
          IN  /\ SetSvc(out.svc)
              /\ fbResult' = out.result
              /\ fbCall' = [NoCall EXCEPT
                            !.made = TRUE, !.starRating = starRating,
                            !.remote = remote,
                            !.hadClient = langsmithClient,
                            !.wasInitialized = isInitialized,
                            !.pendingBefore = Len(pendingFeedback),
                            !.runId = runId,
                            !.threadManager = threadManager,
                            !.traceId = traceId]
    /\ UNCHANGED apiKey
    /\ UNCHANGED <<parseVars, wfVars, httpVars, storeVars, cliVars, authVars>>

\* feedbackService.clearPendingFeedback()
FbClearPending ==
    /\ pendingFeedback # EmptyPending
    /\ SetSvc(clearPendingFeedback(Svc))
    /\ fbCall' = [NoCall EXCEPT !.cleared = TRUE]
    /\ fbResult' = NoResult
    /\ UNCHANGED apiKey
    /\ UNCHANGED <<parseVars, wfVars, httpVars, storeVars, cliVars, authVars>>

FbContextNext == FbInitialize \/ FbCollectInContext \/ FbClearPending

-----------------------------------------------------------------------------
(***************************************************************************)
(* Properties of collectFeedback.                                          *)
(***************************************************************************)

\* The last call was collectFeedback with a rating in 1..5.
RatedCall == fbCall.made /\ fbCall.starRating \in 1..5

\* The text includes the star count.
IncludesStars(message, starRating) ==
    \E j \in DOMAIN message : message[j] = ToString(starRating)

\* The pending collection holds the record under the local id.
InPending(localId, feedback) ==
    \E j \in DOMAIN pendingFeedback :
        /\ pendingFeedback[j].localId = localId
        /\ pendingFeedback[j].feedback = feedback

\* C3: for every rating in 1..5, collectFeedback on a service with a
\* configured client whose remote write succeeds returns submitted = true
\* and a remote record id; when the remote write fails, or no client is
\* configured, it returns submitted = false and a local id; either way the
\* confirmation message is non-empty and includes the star count.
C3_SubmittedOrLocal ==
    RatedCall =>
        /\ ~fbResult.threw
        /\ fbResult.message # <<>>
        /\ IncludesStars(fbResult.message, fbCall.starRating)
        /\ (langsmithClient /\ fbCall.remote = "ok") =>
              /\ fbResult.submitted
              /\ fbResult.feedbackId.kind = "remote"
        /\ ~(langsmithClient /\ fbCall.remote = "ok") =>
              /\ ~fbResult.submitted
              /\ fbResult.localId.kind = "local"

\* A 5-star rating was submitted through a client that was already there.
C3_Witness ==
    /\ RatedCall /\ fbCall.hadClient /\ fbCall.starRating = 5
    /\ fbCall.remote = "ok" /\ fbResult.submitted
    /\ fbResult.feedbackId.kind = "remote"

\* C4: for a rating in 1..5, when the remote write throws (network,
\* authentication, malformed response) collectFeedback does not throw: it
\* returns submitted = false with the error text, and the record it returns
\* is in the pending collection under the local id it returns.
C4_RemoteErrorFallsBack ==
    (RatedCall /\ fbCall.remote \in RemoteErrors) =>
        /\ ~fbResult.threw
        /\ ~fbResult.submitted
        /\ InPending(fbResult.localId, fbResult.feedback)
        /\ langsmithClient => fbResult.error = fbCall.remote

\* The write failed with an authentication error on a configured client.
C4_Witness ==
    /\ RatedCall /\ fbCall.hadClient /\ fbCall.remote = "auth"
    /\ ~fbResult.submitted /\ fbResult.error = "auth"
    /\ InPending(fbResult.localId, fbResult.feedback)

\* The trace identifier the stated order gives the last call: the supplied
\* runId, else the id of the active trace context, else the thread
\* manager's current thread id when it is a UUID, else a generated UUID.
StatedTraceId ==
    IF fbCall.runId # NullRunId THEN fbCall.runId
    ELSE IF fbCall.traceId # NullId THEN fbCall.traceId
    ELSE IF fbCall.threadManager.present
            /\ uuidRegexTest(fbCall.threadManager.currentThreadId)
    THEN fbCall.threadManager.currentThreadId
    ELSE generateUUID

\* C15: the trace identifier of the feedback record a call creates (the
\* one it returns, and the one it writes to the remote store) is resolved
\* in the order: supplied runId, active trace context, thread id when a
\* UUID, generated UUID; it is never empty.
C15_TraceIdOrder ==
    RatedCall =>
        /\ fbResult.feedback.runId # NullRunId
        /\ fbResult.feedback.runId = StatedTraceId
        /\ fbResult.submitted =>
              remoteFeedback[Len(remoteFeedback)].runId = StatedTraceId

\* How often the last call logged a line.
LogCount(line) == Cardinality({j \in DOMAIN fbLog : fbLog[j] = line})

\* C16: one call of collectFeedback with a rating in 1..5 returns a result;
\* it attempts the remote write at most once, either directly through the
\* client it found or in one retry, made after the re-initialization of a
\* service without client has produced one; it retries at most once and
\* never after a failed write.
C16_OneSoftRetry ==
    RatedCall =>
        /\ ~fbResult.threw
        /\ LogCount("Retrying") <= 1
        /\ LogCount("Attempting to submit") <= 1
        /\ LogCount("Attempting to submit") = 1 =>
              \/ fbCall.hadClient /\ LogCount("Retrying") = 0
              \/ /\ ~fbCall.hadClient /\ langsmithClient
                 /\ fbLog = <<"Attempting to re-initialize", "Retrying",
                              "Attempting to submit">>
        /\ LogCount("Retrying") = 1 =>
              ~fbCall.hadClient /\ langsmithClient

\* The write was made in the retry, after the re-initialization, and failed:
\* no second retry followed.
C16_Witness ==
    /\ RatedCall /\ ~fbCall.hadClient /\ fbCall.remote = "network"
    /\ fbLog = <<"Attempting to re-initialize", "Retrying",
                 "Attempting to submit">>
    /\ ~fbResult.submitted /\ ~fbResult.threw

\* Is pending the collection before with entries added at its end?
Extends(before, after) ==
    /\ Len(after) >= Len(before)
    /\ SubSeq(after, 1, Len(before)) = before

\* C17: a step changes the pending collection only by adding records at
\* its end, the records already there staying as they are, unless the step
\* is clearPendingFeedback.
C17_PendingOnlyGrows ==
    [][\/ Extends(pendingFeedback, pendingFeedback')
       \/ fbCall'.cleared /\ pendingFeedback' = EmptyPending]_vars

\* A second record was added to the pending collection.
C17_Witness ==
    /\ RatedCall /\ fbCall.pendingBefore = 1 /\ Len(pendingFeedback) = 2

\* C18: for r in 1..5 the score of a rating of r stars is (r - 1) / 4
\* exactly (0, 0.25, 0.5, 0.75, 1), and this is the score of the record
\* returned, of the record kept locally and of the remote write.
C18_ScoreIsQuarterSteps ==
    RatedCall =>
        LET r == fbCall.starRating
            score == <<0, 25, 50, 75, 100>>[r]
        IN  /\ convertStarRatingToScore(r) * 4 = (r - 1) * 100
            /\ convertStarRatingToScore(r) = score
            /\ fbResult.feedback.score = score
            /\ fbResult.submitted =>
                  remoteFeedback[Len(remoteFeedback)].score = score
            /\ ~fbResult.submitted =>
                  \E j \in DOMAIN pendingFeedback :
                      /\ pendingFeedback[j].localId = fbResult.localId
                      /\ pendingFeedback[j].feedback.score = score

\* Four stars were written to the remote store with the score 0.75.
C18_Witness ==
    /\ RatedCall /\ fbCall.starRating = 4 /\ fbResult.submitted
    /\ remoteFeedback[Len(remoteFeedback)].score = 75
    /\ remoteFeedback[Len(remoteFeedback)].original_rating = 4

\* C5: a rating that collectFeedback returns as submitted (submitted = true)
\* is persisted remotely only: the call has put nothing into the pending
\* collection.
C5_SubmittedNotPending ==
    (RatedCall /\ fbResult.submitted) =>
        Len(pendingFeedback) = fbCall.pendingBefore


-----------------------------------------------------------------------------
(***************************************************************************)
(* Messages.  A message in memory is a HumanMessage, an AIMessage, a       *)
(* ToolMessage or a plain object; absent JavaScript properties are         *)
(* "undefined".  tool_calls is a list of tool names, tool_call_id a name.  *)
(***************************************************************************)

Undefined(v) == [k |-> "undefined", v |-> v]
Null(v)      == [k |-> "null", v |-> v]
Value(v)     == [k |-> "value", v |-> v]

NoTimestamp == -1

HumanMessage(content) ==
    [cls |-> "HumanMessage", type |-> "", content |-> content,
     timestamp |-> NoTimestamp,
     tool_calls |-> Undefined(<<>>), tool_call_id |-> Undefined("")]

\* new AIMessage(content): tool_calls defaults to the empty list.
AIMessage(content) ==
    [cls |-> "AIMessage", type |-> "", content |-> content,
     timestamp |-> NoTimestamp,
     tool_calls |-> Value(<<>>), tool_call_id |-> Undefined("")]

AIMessageCalling(content, calls) ==
    [AIMessage(content) EXCEPT !.tool_calls = Value(calls)]

ToolMessage(content, id) ==
    [cls |-> "ToolMessage", type |-> "", content |-> content,
     timestamp |-> NoTimestamp,
     tool_calls |-> Undefined(<<>>), tool_call_id |-> Value(id)]

\* JavaScript truthiness of tool_calls (a list) and of tool_call_id (a string).
TruthyList(x) == x.k = "value"
TruthyText(x) == x.k = "value" /\ x.v # ""

\* messageUtils.getMessageType
getMessageType(message) ==
    CASE message.cls = "HumanMessage" -> "human"
      [] message.cls = "AIMessage"    -> "ai"
      [] message.cls = "ToolMessage"  -> "tool"
      [] OTHER ->
            IF message.type # "" THEN message.type
            ELSE IF TruthyList(message.tool_calls)
                    /\ Len(message.tool_calls.v) > 0
                 THEN "ai"
                 ELSE "unknown"

isHumanMessage(message) == getMessageType(message) = "human"

-----------------------------------------------------------------------------
(***************************************************************************)
(* PersistentStorage and ConversationStore.  The file is                   *)
(* [state, conversations]: state "absent" before the first write,          *)
(* "document" when it holds { conversations: [...] }.  io = [readFails,    *)
(* writeFails] says whether fs.readFile / fs.writeFile throw in this call. *)
(***************************************************************************)

maxHistorySize == 100

AbsentFile == [state |-> "absent", conversations |-> <<>>]
Document(conversations) ==
    [state |-> "document", conversations |-> conversations]

\* A file whose text is not JSON, and one whose JSON is an object without
\* a conversations list, such as {}.
CorruptFile == [state |-> "corrupt", conversations |-> <<>>]
ForeignFile == [state |-> "foreign", conversations |-> <<>>]

IoOk == [readFails |-> FALSE, writeFails |-> FALSE]

\* PersistentStorage.load({ conversations: [] }): the default when the
\* read or JSON.parse throws, else what the file holds.
StorageLoad(file, io) ==
    IF io.readFails \/ file.state \in {"absent", "corrupt"}
    THEN Document(<<>>)
    ELSE file

\* data.conversations.map throws: the loaded value has no conversations.
LoadRaises(file, io) == StorageLoad(file, io).state = "foreign"

\* ConversationStore.serializeMessage
serializeMessage(message, t) ==
    [type         |-> getMessageType(message),
     content      |-> message.content,
     timestamp    |-> t,
     tool_calls   |-> IF TruthyList(message.tool_calls)
                      THEN message.tool_calls ELSE Null(<<>>),
     tool_call_id |-> IF TruthyText(message.tool_call_id)
                      THEN message.tool_call_id ELSE Null("")]

\* deserializeMessage as it would be if it restored the content only.
deserializeMessage_ContentOnly(messageData) ==
    IF messageData.type = "human" THEN HumanMessage(messageData.content)
    ELSE AIMessage(messageData.content)

\* ConversationStore.deserializeMessage
deserializeMessage(messageData) ==
    IF messageData.type = "human"
    THEN HumanMessage(messageData.content)
    ELSE IF messageData.type = "ai"
    THEN IF TruthyList(messageData.tool_calls)
         THEN AIMessageCalling(messageData.content, messageData.tool_calls.v)
         ELSE AIMessage(messageData.content)
    ELSE [cls |-> "Object", type |-> messageData.type,
          content |-> messageData.content,
          timestamp |-> messageData.timestamp,
          tool_calls |-> messageData.tool_calls,
          tool_call_id |-> messageData.tool_call_id]

MapSeq(f(_), xs) == [j \in 1..Len(xs) |-> f(xs[j])]

\* PersistentStorage.load({ conversations: [] }), then the deserializing map.
loadConversations(file, io) ==
    LET data == StorageLoad(file, io).conversations
    IN  MapSeq(LAMBDA conv :
                  [conv EXCEPT !.messages = MapSeq(deserializeMessage, @)],
               data)

\* The serializing map, then PersistentStorage.save; a failed write keeps
\* the file as it was.
saveConversations(file, conversations, t, io) ==
    IF io.writeFails THEN file
    ELSE Document(MapSeq(LAMBDA conv :
                    [conv EXCEPT !.messages =
                        MapSeq(LAMBDA m : serializeMessage(m, t), @)],
                    conversations))

\* Titles: a given text, or what generateTitle makes of the messages.
NoTitle == [kind |-> "none", text |-> <<>>, of |-> NullId]
ThreadTitle(id) == [kind |-> "thread", text |-> <<>>, of |-> id]

TitleLimit == 30

RECURSIVE FirstHuman(_, _)
FirstHuman(messages, j) ==
    IF j > Len(messages) THEN 0
    ELSE IF isHumanMessage(messages[j]) THEN j
    ELSE FirstHuman(messages, j + 1)

\* ConversationStore.generateTitle
generateTitle(messages, t) ==
    IF Len(messages) = 0
    THEN [kind |-> "new", text |-> <<>>, of |-> NullId]
    ELSE LET h == FirstHuman(messages, 1)
         IN  IF h # 0
             THEN LET c == messages[h].content
                  IN  [kind |-> "content",
                       text |-> IF Len(c) > TitleLimit
                                THEN SubSeq(c, 1, TitleLimit) \o <<"...">>
                                ELSE c,
                       of |-> NullId]
             ELSE [kind |-> "dated", text |-> <<>>, of |-> MsId(t)]

\* splice(maxHistorySize) as it would be if it kept the newest entry out.
Splice_DropNewest(conversations) ==
    SubSeq(conversations, 2, Len(conversations))

\* conversations.splice(this.maxHistorySize) when the list is too long
Splice(conversations) ==
    IF Len(conversations) > maxHistorySize
    THEN SubSeq(conversations, 1, maxHistorySize)
    ELSE conversations

\* ConversationStore.addConversation: [file, id] afterwards.
addConversation(file, messages, title, t, io) ==
    LET conversations == loadConversations(file, io)
        newConversation ==
            [id        |-> MsId(t),
             title     |-> IF title.kind # "none" THEN title
                           ELSE generateTitle(messages, t),
             messages  |-> messages,
             createdAt |-> t,
             updatedAt |-> t]
        kept == Splice(<<newConversation>> \o conversations)
    IN  IF LoadRaises(file, io)
        THEN [file |-> file, id |-> NullId]
        ELSE [file |-> saveConversations(file, kept, t, io),
              id   |-> newConversation.id]

RECURSIVE FindIndex(_, _, _)
\* conversations.findIndex(conv => conv.id === conversationId); 0 is -1.
FindIndex(conversations, conversationId, j) ==
    IF j > Len(conversations) THEN 0
    ELSE IF conversations[j].id = conversationId THEN j
    ELSE FindIndex(conversations, conversationId, j + 1)

\* ConversationStore.updateConversation: [file, found] afterwards.
updateConversation(file, conversationId, messages, t, io) ==
    LET conversations == loadConversations(file, io)
        index == FindIndex(conversations, conversationId, 1)
    IN  IF index # 0 /\ ~LoadRaises(file, io)
        THEN [file |-> saveConversations(file,
                          [conversations EXCEPT
                              ![index].messages = messages,
                              ![index].updatedAt = t], t, io),
              found |-> TRUE]
        ELSE [file |-> file, found |-> FALSE]

\* ConversationStore.getRecentConversation; none is NoConversation.
NoConversation ==
    [id |-> NullId, title |-> NoTitle, messages |-> <<>>,
     createdAt |-> NoTimestamp, updatedAt |-> NoTimestamp]

getRecentConversation(file, io) ==
    LET conversations == loadConversations(file, io)
    IN  IF Len(conversations) > 0 THEN conversations[1] ELSE NoConversation

\* ConversationStore.clearAllConversations
clearAllConversations(file, io) ==
    IF io.writeFails THEN file ELSE Document(<<>>)


-----------------------------------------------------------------------------
(***************************************************************************)
(* The conversation store on its own: addConversation, updateConversation  *)
(* and clearAllConversations called in any order, on a file that is        *)
(* absent, one short of the cap, or at the cap.                            *)
(***************************************************************************)

\* ConversationStore calls made in one run of the model.
MaxStoreOps == 2

Hi == <<"h", "i">>
Yo == <<"y", "o">>

\* A file left by n earlier addConversation calls, one per millisecond.
Prefilled(n) ==
    Document([j \in 1..n |->
        [id        |-> MsId(n - j + 1),
         title     |-> generateTitle(<<HumanMessage(Hi)>>, n - j + 1),
         messages  |-> <<serializeMessage(HumanMessage(Hi), n - j + 1)>>,
         createdAt |-> n - j + 1,
         updatedAt |-> n - j + 1]])

StartTime == maxHistorySize + 1

NoStoreCall ==
    [n |-> 0, op |-> "none", messages |-> <<>>, id |-> NullId,
     found |-> FALSE, io |-> IoOk, lenBefore |-> 0, raised |-> FALSE]

StoreIdle ==
    /\ conversationsFile = AbsentFile
    /\ now = StartTime
    /\ storeCall = NoStoreCall

StoreInit ==
    /\ conversationsFile \in {AbsentFile, Prefilled(maxHistorySize - 1),
                              Prefilled(maxHistorySize)}
    /\ now = StartTime
    /\ storeCall = NoStoreCall

IoCases == [readFails : BOOLEAN, writeFails : BOOLEAN]

\* The time the next call reads: the same millisecond or the next.
Elapsed == {0, 1}

StoreMessageLists ==
    {<<HumanMessage(Hi)>>, <<HumanMessage(Hi), AIMessage(Yo)>>}

\* Ids a caller passes to updateConversation: the newest and the oldest
\* conversation of the file, and an id that names none.
UpdateTargets ==
    LET cs == conversationsFile.conversations
    IN  {MsId(0)} \cup {cs[j].id : j \in {1, Len(cs)} \cap DOMAIN cs}

\* conversationStore.addConversation(messages)
StoreAdd ==
    /\ storeCall.n < MaxStoreOps
    /\ \E messages \in StoreMessageLists, io \in IoCases, dt \in Elapsed :
          LET out == addConversation(conversationsFile, messages, NoTitle,
                                     now, io)
          IN  /\ conversationsFile' = out.file
              /\ now' = now + dt
              /\ storeCall' =
                    [n |-> storeCall.n + 1, op |-> "add",
                     messages |-> messages, id |-> out.id, found |-> FALSE,
                     io |-> io,
                     lenBefore |-> Len(conversationsFile.conversations),
                     raised |-> LoadRaises(conversationsFile, io)]
    /\ UNCHANGED <<parseVars, wfVars, httpVars, fbVars, cliVars, authVars>>

\* conversationStore.updateConversation(id, messages)
StoreUpdate ==
    /\ storeCall.n < MaxStoreOps
    /\ \E id \in UpdateTargets, messages \in StoreMessageLists,
          io \in IoCases, dt \in Elapsed :
          LET out == updateConversation(conversationsFile, id, messages,
                                        now, io)
          IN  /\ conversationsFile' = out.file
              /\ now' = now + dt
              /\ storeCall' =
                    [n |-> storeCall.n + 1, op |-> "update",
                     messages |-> messages, id |-> id, found |-> out.found,
                     io |-> io,
                     lenBefore |-> Len(conversationsFile.conversations),
                     raised |-> LoadRaises(conversationsFile, io)]
    /\ UNCHANGED <<parseVars, wfVars, httpVars, fbVars, cliVars, authVars>>

\* conversationStore.clearAllConversations()
StoreClear ==
    /\ storeCall.n < MaxStoreOps
    /\ \E io \in IoCases, dt \in Elapsed :
          /\ conversationsFile' = clearAllConversations(conversationsFile, io)
          /\ now' = now + dt
          /\ storeCall' =
                [n |-> storeCall.n + 1, op |-> "clear", messages |-> <<>>,
                 id |-> NullId, found |-> FALSE, io |-> io,
                 lenBefore |-> Len(conversationsFile.conversations),
                 raised |-> FALSE]
    /\ UNCHANGED <<parseVars, wfVars, httpVars, fbVars, cliVars, authVars>>

StoreNext == StoreAdd \/ StoreUpdate \/ StoreClear

\* What a stored conversation says: the type and content of its messages.
Said(conv) ==
    [j \in DOMAIN conv.messages |->
        <<conv.messages[j].type, conv.messages[j].content>>]

\* The entries of the file an add or update of the given kind may remove
\* or rewrite: the one updateConversation finds, and on an add the entries
\* beyond the size cap once the new one is in front.
Affected(file, call) ==
    IF call.op = "update"
    THEN {FindIndex(file.conversations, call.id, 1)}
    ELSE {j \in DOMAIN file.conversations : j + 1 > maxHistorySize}

\* C28: addConversation and updateConversation keep every other persisted
\* conversation, with the same messages, except the oldest entries the
\* size cap drops, also when the file read or the file write fails.
C28_OthersKept ==
    [][(storeCall'.n = storeCall.n + 1
          /\ storeCall'.op \in {"add", "update"}) =>
          \A j \in DOMAIN conversationsFile.conversations
                   \ Affected(conversationsFile, storeCall') :
             \E k \in DOMAIN conversationsFile'.conversations :
                /\ conversationsFile'.conversations[k].id =
                      conversationsFile.conversations[j].id
                /\ Said(conversationsFile'.conversations[k]) =
                      Said(conversationsFile.conversations[j])]_vars

\* Files a session may find: none, one that is not JSON, one that is JSON
\* but no conversation document, and a document.
LoadInit ==
    /\ conversationsFile \in {AbsentFile, CorruptFile, ForeignFile,
                              Prefilled(1)}
    /\ now = StartTime
    /\ storeCall = NoStoreCall

\* conversationStore.loadConversations()
StoreLoad ==
    /\ storeCall.n < MaxStoreOps
    /\ \E io \in IoCases, dt \in Elapsed :
          /\ now' = now + dt
          /\ storeCall' =
                [n |-> storeCall.n + 1, op |-> "load",
                 messages |-> <<>>, id |-> NullId, found |-> FALSE,
                 io |-> io,
                 lenBefore |-> Len(loadConversations(conversationsFile, io)),
                 raised |-> LoadRaises(conversationsFile, io)]
    /\ UNCHANGED conversationsFile
    /\ UNCHANGED <<parseVars, wfVars, httpVars, fbVars, cliVars, authVars>>

LoadNext == StoreLoad \/ StoreAdd \/ StoreUpdate \/ StoreClear

-----------------------------------------------------------------------------
(***************************************************************************)
(* Properties of the conversation store.                                   *)
(***************************************************************************)

\* No conversation of the list was created after one that precedes it.
NewestFirst(conversations) ==
    \A j \in 1..(Len(conversations) - 1) :
        conversations[j].createdAt >= conversations[j + 1].createdAt

\* C7: every addConversation, updateConversation and clearAllConversations
\* leaves at most maxHistorySize conversations in the file, newest first; an
\* addConversation that reads and writes the file puts the new conversation
\* first and keeps the earlier ones in their order behind it, dropping from
\* the end (the oldest) so that a full store stays at exactly maxHistorySize.
C7_CapNewestFirst ==
    [][LET old == conversationsFile.conversations
           new == conversationsFile'.conversations
       IN  /\ Len(new) <= maxHistorySize
           /\ NewestFirst(new)
           /\ (storeCall'.op = "add" /\ storeCall'.io = IoOk) =>
                 /\ Len(new) = IF Len(old) < maxHistorySize
                               THEN Len(old) + 1 ELSE maxHistorySize
                 /\ new[1].id = storeCall'.id
                 /\ \A j \in 2..Len(new) :
                       /\ new[j].id = old[j - 1].id
                       /\ new[j].createdAt = old[j - 1].createdAt]_vars

\* C13: no call of the conversation store raises, whatever the file holds
\* and whether or not the read or the write fails.
C13_StoreNeverRaises == ~storeCall.raised

\* A conversation was added to a store that held maxHistorySize already.
C7_Witness ==
    /\ storeCall.op = "add" /\ storeCall.io = IoOk
    /\ storeCall.lenBefore = maxHistorySize
    /\ Len(conversationsFile.conversations) = maxHistorySize
    /\ conversationsFile.conversations[1].id = storeCall.id


-----------------------------------------------------------------------------
(***************************************************************************)
(* ConversationManager: the current conversation cm = [messages, id] and   *)
(* its saving and restoring through the conversation store.  Each operator *)
(* gives the manager and the file afterwards.                              *)
(***************************************************************************)

autoSaveInterval == 10

ConversationManagerNew == [messages |-> <<>>, id |-> NullId]

\* ConversationManager.saveConversation; saved: the store was called.
saveConversation(cm, file, t, io) ==
    IF Len(cm.messages) = 0
    THEN [cm |-> cm, file |-> file, saved |-> FALSE]
    ELSE IF cm.id # NullId
    THEN [cm |-> cm,
          file |-> updateConversation(file, cm.id, cm.messages, t, io).file,
          saved |-> TRUE]
    ELSE LET out == addConversation(file, cm.messages, NoTitle, t, io)
         IN  [cm |-> [cm EXCEPT !.id = out.id], file |-> out.file,
              saved |-> TRUE]

\* ConversationManager.autoSaveIfNeeded
autoSaveIfNeeded(cm, file, t, io) ==
    IF Len(cm.messages) % autoSaveInterval = 0
    THEN saveConversation(cm, file, t, io)
    ELSE [cm |-> cm, file |-> file, saved |-> FALSE]

\* ConversationManager.clearConversation
clearConversation(cm, file, t, io) ==
    LET out == IF Len(cm.messages) > 0
               THEN saveConversation(cm, file, t, io)
               ELSE [cm |-> cm, file |-> file, saved |-> FALSE]
    IN  [out EXCEPT !.cm = ConversationManagerNew]

\* ConversationManager.restoreRecentConversation; answer is what the user
\* types at "Continue this conversation?".
restoreRecentConversation(cm, file, answer, io) ==
    LET recentConversation == getRecentConversation(file, io)
    IN  IF recentConversation = NoConversation
           \/ Len(recentConversation.messages) = 0
        THEN [cm |-> cm, restored |-> FALSE]
        ELSE IF answer # "n"
        THEN [cm |-> [messages |-> recentConversation.messages,
                      id |-> recentConversation.id],
              restored |-> TRUE]
        ELSE [cm |-> cm, restored |-> FALSE]

Cm == [messages |-> currentMessages, id |-> currentConversationId]

SetCm(cm) ==
    /\ currentMessages' = cm.messages
    /\ currentConversationId' = cm.id

NoCliCall ==
    [op |-> "none", kind |-> "", didSave |-> FALSE, saved |-> <<>>,
     restored |-> FALSE]

\* No workflow invocation is awaited.
NoFlight ==
    [active |-> FALSE, via |-> "", text |-> <<>>, armed |-> FALSE,
     waited |-> 0]

CliIdle ==
    /\ currentMessages = ConversationManagerNew.messages
    /\ currentConversationId = ConversationManagerNew.id
    /\ isWaitingForFeedback = FALSE
    /\ isWaitingForComment = FALSE
    /\ pendingRating = 0
    /\ isRunning = FALSE
    /\ isReady = FALSE
    /\ currentThreadId = NullId
    /\ cliCall = NoCliCall
    /\ inFlight = NoFlight

-----------------------------------------------------------------------------
(***************************************************************************)
(* Saving and restoring a conversation: a manager that holds any short     *)
(* list of messages saves it and restores it, in any order.                *)
(***************************************************************************)

\* Messages of the conversation that is saved and restored.
MaxRoundTrip == 3

ToolCalls == <<"calculator">>

RoundTripMessages ==
    {HumanMessage(Hi), AIMessage(Yo), AIMessageCalling(<<>>, ToolCalls),
     ToolMessage(Yo, "call_1"),
     [cls |-> "Object", type |-> "", content |-> Hi, timestamp |-> NoTimestamp,
      tool_calls |-> Undefined(<<>>), tool_call_id |-> Undefined("")]}

RoundTripLists ==
    UNION {[1..n -> RoundTripMessages] : n \in 0..MaxRoundTrip}

RoundTripInit ==
    /\ currentMessages \in RoundTripLists
    /\ currentConversationId = NullId
    /\ isWaitingForFeedback = FALSE
    /\ isWaitingForComment = FALSE
    /\ pendingRating = 0
    /\ isRunning = FALSE
    /\ isReady = FALSE
    /\ currentThreadId = NullId
    /\ cliCall = NoCliCall
    /\ inFlight = NoFlight
    /\ StoreIdle

\* conversationManager.saveConversation()
CmSave ==
    /\ LET out == saveConversation(Cm, conversationsFile, now, IoOk)
       IN  /\ SetCm(out.cm)
           /\ conversationsFile' = out.file
           /\ cliCall' = [op |-> "save", kind |-> "", didSave |-> out.saved,
                          saved |-> IF out.saved THEN currentMessages
                                    ELSE cliCall.saved,
                          restored |-> FALSE]
    /\ UNCHANGED <<now, storeCall, isWaitingForFeedback, isWaitingForComment,
                   pendingRating, isRunning, isReady, currentThreadId, inFlight>>
    /\ UNCHANGED <<parseVars, wfVars, httpVars, fbVars, authVars>>

\* conversationManager.restoreRecentConversation(rl), answered with Enter.
CmRestore ==
    /\ LET out == restoreRecentConversation(Cm, conversationsFile, "", IoOk)
       IN  /\ SetCm(out.cm)
           /\ cliCall' = [cliCall EXCEPT !.op = "restore", !.didSave = FALSE,
                                         !.restored = out.restored]
    /\ UNCHANGED <<storeVars, isWaitingForFeedback, isWaitingForComment,
                   pendingRating, isRunning, isReady, currentThreadId, inFlight>>
    /\ UNCHANGED <<parseVars, wfVars, httpVars, fbVars, authVars>>

RoundTripNext == CmSave \/ CmRestore

\* The messages agree in number and, one by one, in content and type, and
\* in tool_calls and tool_call_id wherever the first has them.
SameMessages(saved, loaded) ==
    /\ Len(loaded) = Len(saved)
    /\ \A j \in 1..Len(saved) :
          /\ loaded[j].content = saved[j].content
          /\ getMessageType(loaded[j]) = getMessageType(saved[j])
          /\ saved[j].tool_calls.k = "value" =>
                loaded[j].tool_calls = saved[j].tool_calls
          /\ saved[j].tool_call_id.k = "value" =>
                loaded[j].tool_call_id = saved[j].tool_call_id

\* C6: a conversation restored from the store has as many messages as the
\* conversation that was saved, in the same order, each with the content
\* and the type (human, ai, ...) it was saved with, and with the tool_calls
\* and tool_call_id it was saved with.
C6_RoundTrip ==
    (cliCall.op = "restore" /\ cliCall.restored) =>
        SameMessages(cliCall.saved, currentMessages)

\* A three-message conversation with a tool call and its result came back.
C6_Witness ==
    /\ cliCall.op = "restore" /\ cliCall.restored
    /\ Len(cliCall.saved) = MaxRoundTrip
    /\ \E j \in 1..Len(cliCall.saved) :
          cliCall.saved[j].tool_calls = Value(ToolCalls)
    /\ \E j \in 1..Len(cliCall.saved) :
          cliCall.saved[j].cls = "ToolMessage"
    /\ SameMessages(cliCall.saved, currentMessages)


-----------------------------------------------------------------------------
(***************************************************************************)
(* The CLI session: start, then one handler per line typed at the prompt.  *)
(* The workflow is outside the program: what it answers, or that it fails, *)
(* is an input of the turn.  File reads and writes succeed here.           *)
(***************************************************************************)

\* Lines handled in one session of the model.
MaxInputs == 4

\* Turns of the earlier session whose file the session may start from.
PriorTurns == {0, 3}

Turn(text, response) == <<HumanMessage(text), AIMessage(response)>>

RECURSIVE Transcript(_)
Transcript(k) == IF k = 0 THEN <<>> ELSE Transcript(k - 1) \o Turn(Hi, Yo)

RECURSIVE EarlierTurns(_)
\* The file after k turns of an earlier session, one turn per millisecond.
EarlierTurns(k) ==
    IF k = 0 THEN AbsentFile
    ELSE addConversation(EarlierTurns(k - 1), Turn(Hi, Yo),
                         ThreadTitle(ThreadId(0)), k, IoOk).file

\* The file that session left when it ended with 'exit'.
EarlierSession(k) ==
    saveConversation([messages |-> Transcript(k), id |-> NullId],
                     EarlierTurns(k), k + 1, IoOk).file

RatePart == "Rate this response"

\* What the workflow answers: a plain reply, or one that asks for a rating.
PlainResponse == Yo
RatingResponse == Yo \o <<RatePart>>

\* result.response.includes("Rate this response")
Includes(text, part) == \E j \in DOMAIN text : text[j] = part

WorkflowOutcomes == {"plain", "rating", "error"}

\* Lines typed at the prompt that are no special command.
Banana == <<"b", "a", "n", "a", "n", "a">>

CliInputs == {<<>>, Hi, <<"4">>, Banana}

\* The reply of the comment step.
ThanksMessage(rating, comment, submitted) ==
    <<"Thank you for your ", ToString(rating), "-star rating!">>
    \o (IF comment # <<>> THEN <<"Comment: ">> \o comment ELSE <<>>)
    \o <<IF submitted THEN "Submitted to LangSmith for AI improvement."
         ELSE "Recorded locally.">>

CliInit ==
    /\ CliIdle
    /\ conversationsFile \in {EarlierSession(k) : k \in PriorTurns}
    /\ now = StartTime
    /\ storeCall = NoStoreCall

\* main and CLIInterface.start up to the first prompt:
\* Application.initialize (a missing OPENAI_API_KEY is a warning),
\* displayStatus, then restoreRecentConversation.  An error of the status
\* display or of the restore reaches the catch of start: process.exit(1).
CliStart ==
    /\ ~isRunning /\ cliCall.op = "none"
    /\ \E openaiKey \in BOOLEAN, answer \in {"", "n"} :
          LET out == restoreRecentConversation(Cm, conversationsFile,
                                               answer, IoOk)
              raised == LoadRaises(conversationsFile, IoOk)
          IN  /\ SetSvc(initialize(Svc, Env("ok", FALSE, NullId)))
              /\ isReady' = openaiKey
              /\ currentThreadId' = IF openaiKey THEN ThreadId(now)
                                    ELSE NullId
              /\ IF raised
                 THEN /\ UNCHANGED <<currentMessages, currentConversationId>>
                      /\ cliCall' = [NoCliCall EXCEPT !.op = "start",
                                                      !.kind = "failed"]
                      /\ isRunning' = FALSE
                 ELSE /\ SetCm(out.cm)
                      /\ cliCall' = [NoCliCall EXCEPT !.op = "start",
                                                      !.restored = out.restored]
                      /\ isRunning' = TRUE
    /\ now' = now + 1
    /\ UNCHANGED <<conversationsFile, storeCall, isWaitingForFeedback,
                   isWaitingForComment, pendingRating, inFlight>>
    /\ UNCHANGED <<apiKey, fbCall, fbResult>>
    /\ UNCHANGED <<parseVars, wfVars, httpVars, authVars>>

\* currentMessages.pop() as it would be if it removed nothing.
Pop_Nothing(messages) == messages

\* currentMessages.pop(): the list without its last message.
Pop(messages) == SubSeq(messages, 1, Len(messages) - 1)

\* processUserInput, comment step: the rating is submitted with the line
\* as its comment.
CommentStep(text, remote, traceId, dt) ==
    LET pushed == Append(currentMessages, HumanMessage(text))
        svc    == initialize(SvcAtCall, Env(remote, FALSE, traceId))
        data   == [starRating |-> pendingRating, comment |-> Trim(text),
                   key |-> "user_rating", runId |-> NullRunId]
        out    == collectFeedbackWithContext(svc, data,
                     ThreadManagerAt(currentThreadId),
                     Env(remote, FALSE, traceId))
        reply  == ThanksMessage(pendingRating, Trim(text),
                                out.result.submitted)
        auto   == autoSaveIfNeeded(
                     [messages |-> Append(pushed, AIMessage(reply)),
                      id |-> currentConversationId],
                     conversationsFile, now + dt, IoOk)
    IN  /\ SetSvc(out.svc)
        /\ fbResult' = out.result
        /\ fbCall' = [NoCall EXCEPT
                      !.made = TRUE, !.starRating = pendingRating,
                      !.comment = Trim(text), !.remote = remote,
                      !.hadClient = langsmithClient,
                      !.wasInitialized = isInitialized,
                      !.pendingBefore = Len(pendingFeedback),
                      !.threadManager = ThreadManagerAt(currentThreadId),
                      !.traceId = traceId]
        /\ IF out.result.threw
           THEN /\ currentMessages' = Pop(pushed)
                /\ UNCHANGED <<currentConversationId,
                               conversationsFile, isWaitingForFeedback,
                               isWaitingForComment, pendingRating>>
                /\ cliCall' = [cliCall EXCEPT !.op = "input",
                                 !.kind = "error", !.didSave = FALSE]
                /\ now' = now + 1
           ELSE /\ SetCm(auto.cm)
                /\ conversationsFile' = auto.file
                /\ isWaitingForComment' = FALSE
                /\ isWaitingForFeedback' = FALSE
                /\ pendingRating' = 0
                /\ cliCall' = [cliCall EXCEPT !.op = "input",
                                 !.kind = "comment", !.didSave = auto.saved,
                                 !.saved = IF auto.saved THEN auto.cm.messages
                                           ELSE @]
                /\ now' = now + (IF auto.saved THEN dt ELSE 0) + 1

\* The test of line 440 as it would be if every line were taken.
RatingAccepted_Any(result) == TRUE

\* parsed && parsed.rating >= 1 && parsed.rating <= 5
RatingAccepted(result) ==
    ~result.isNull /\ result.rating >= 1 /\ result.rating <= 5

\* processUserInput, rating step: the line is parsed as a rating.
RatingStep(text) ==
    LET pushed == Append(currentMessages, HumanMessage(text))
        result == parseUserFeedback(text)
    IN  /\ SetSvc(initialize(Svc, Env("ok", FALSE, NullId)))
        /\ currentMessages' = pushed
        /\ IF RatingAccepted(result)
           THEN /\ pendingRating' = result.rating
                /\ isWaitingForFeedback' = FALSE
                /\ isWaitingForComment' = TRUE
                /\ cliCall' = [cliCall EXCEPT !.op = "input",
                                 !.kind = "rating", !.didSave = FALSE]
           ELSE /\ UNCHANGED <<pendingRating, isWaitingForFeedback,
                               isWaitingForComment>>
                /\ cliCall' = [cliCall EXCEPT !.op = "input",
                                 !.kind = "invalid", !.didSave = FALSE]
        /\ now' = now + 1
        /\ UNCHANGED <<currentConversationId, conversationsFile, fbCall,
                       fbResult>>

\* ThreadManager.saveToLocalStore
saveToLocalStore(file, userMessage, aiResponse, threadId, t, io) ==
    addConversation(file, Turn(userMessage, aiResponse),
                    ThreadTitle(threadId), t, io).file

\* a || b of two identifiers
OrId(a, b) == IF a # NullId THEN a ELSE b

\* createThread minting a new thread for every message.
createThread_Fresh(threadId, t) == ThreadId(t)

\* ThreadManager.createThread: the id given, or a new one from the clock.
createThread(threadId, t) ==
    IF threadId # NullId THEN threadId ELSE ThreadId(t)

\* Application.processMessageWithThread, then ThreadManager.processMessage:
\* the thread the message is processed under, which becomes the current
\* thread id.
processMessageWithThread(current, optionsThreadId, t) ==
    LET threadId == OrId(optionsThreadId, current)
        set      == IF optionsThreadId # NullId THEN optionsThreadId
                    ELSE current
    IN  createThread(OrId(threadId, set), t)

\* processUserInput, a conversation turn: the workflow answers, the turn is
\* saved under the thread's title, the reply is appended and the
\* conversation auto saved; a failure takes the user message back.  The
\* CLI passes the thread manager's current thread id as options.threadId.
TurnFinish(pushed, text, outcome, t, dt) ==
    LET response == IF outcome = "rating" THEN RatingResponse
                    ELSE PlainResponse
        thread   == processMessageWithThread(currentThreadId,
                                             currentThreadId, t)
        local    == saveToLocalStore(conversationsFile, text, response,
                                     thread, t, IoOk)
        auto     == autoSaveIfNeeded(
                       [messages |-> Append(pushed, AIMessage(response)),
                        id |-> currentConversationId],
                       local, t + dt, IoOk)
    IN  /\ currentThreadId' = IF isReady THEN thread ELSE currentThreadId
        /\ IF outcome = "error" \/ ~isReady
           THEN /\ currentMessages' = Pop(pushed)
                /\ UNCHANGED <<currentConversationId,
                               conversationsFile, isWaitingForFeedback>>
                /\ cliCall' = [cliCall EXCEPT !.op = "input",
                                 !.kind = "error", !.didSave = FALSE]
                /\ now' = t + 1
           ELSE /\ SetCm(auto.cm)
                /\ conversationsFile' = auto.file
                /\ isWaitingForFeedback' =
                      (isWaitingForFeedback \/ Includes(response, RatePart))
                /\ cliCall' = [cliCall EXCEPT !.op = "input",
                                 !.kind = "turn", !.didSave = auto.saved,
                                 !.saved = IF auto.saved THEN auto.cm.messages
                                           ELSE @]
                /\ now' = t + (IF auto.saved THEN dt ELSE 0) + 1
        /\ UNCHANGED <<isWaitingForComment, pendingRating>>
        /\ UNCHANGED fbVars

\* processUserInput, a conversation turn, from the push of the user message
\* to the end of the handler.
TurnStep(text, outcome, dt) ==
    TurnFinish(Append(currentMessages, HumanMessage(text)), text, outcome,
               now, dt)

\* processUserInput(text): the comment step, the rating step or a turn.
processUserInput(text) ==
    /\ isRunning /\ now < StartTime + MaxInputs
    /\ IF isWaitingForComment
       THEN \E remote \in {"ok", "network"}, traceId \in {NullId, Uuid(1)},
               dt \in Elapsed :
               /\ CommentStep(text, remote, traceId, dt)
               /\ UNCHANGED currentThreadId
       ELSE IF isWaitingForFeedback
       THEN RatingStep(text) /\ UNCHANGED currentThreadId
       ELSE \E outcome \in WorkflowOutcomes, dt \in Elapsed :
               TurnStep(text, outcome, dt)
    /\ UNCHANGED <<apiKey, storeCall, isRunning, isReady, inFlight>>
    /\ UNCHANGED <<parseVars, wfVars, httpVars, authVars>>

\* One pass of mainLoop with a line that is no special command.
CliInput == \E text \in CliInputs : processUserInput(text)

\* The line 'clear': clearConversation.
CliClear ==
    /\ isRunning /\ now < StartTime + MaxInputs
    /\ LET out == clearConversation(Cm, conversationsFile, now, IoOk)
       IN  /\ SetCm(out.cm)
           /\ conversationsFile' = out.file
           /\ cliCall' = [cliCall EXCEPT !.op = "clear", !.kind = "",
                            !.didSave = out.saved,
                            !.saved = IF out.saved THEN currentMessages
                                      ELSE @]
    /\ now' = now + 1
    /\ UNCHANGED <<storeCall, isWaitingForFeedback, isWaitingForComment,
                   pendingRating, isRunning, isReady, currentThreadId, inFlight>>
    /\ UNCHANGED <<parseVars, wfVars, httpVars, fbVars, authVars>>

\* The line 'exit': shutdown saves the conversation and ends the process.
CliExit ==
    /\ isRunning /\ now < StartTime + MaxInputs
    /\ LET out == saveConversation(Cm, conversationsFile, now, IoOk)
       IN  /\ SetCm(out.cm)
           /\ conversationsFile' = out.file
           /\ cliCall' = [cliCall EXCEPT !.op = "exit", !.kind = "",
                            !.didSave = out.saved,
                            !.saved = IF out.saved THEN currentMessages
                                      ELSE @]
    /\ isRunning' = FALSE
    /\ now' = now + 1
    /\ UNCHANGED <<storeCall, isWaitingForFeedback, isWaitingForComment,
                   pendingRating, isReady, currentThreadId, inFlight>>
    /\ UNCHANGED <<parseVars, wfVars, httpVars, fbVars, authVars>>

CliNext == CliStart \/ CliInput \/ CliClear \/ CliExit

-----------------------------------------------------------------------------
(***************************************************************************)
(* Properties of the CLI session.                                          *)
(***************************************************************************)

\* C8: when the handler of an input line has brought the number of
\* messages of the current conversation to a multiple of autoSaveInterval,
\* it has saved the conversation before the next line is read, and the
\* conversation has an identifier.
C8_SavedAtEveryMultiple ==
    (/\ cliCall.op = "input" /\ cliCall.kind # "error"
     /\ Len(currentMessages) > 0
     /\ Len(currentMessages) % autoSaveInterval = 0) =>
        /\ cliCall.didSave
        /\ currentConversationId # NullId

\* A line was typed while the CLI waited for a rating.
RatingLine ==
    /\ isWaitingForFeedback /\ ~isWaitingForComment
    /\ cliCall'.op = "input"
    /\ Len(currentMessages') = Len(currentMessages) + 1

\* C19: while the CLI waits for a rating, a line that does not parse as a
\* rating leaves the conversation file and the pending collection as they
\* were, makes no remote write, and leaves the CLI waiting for a rating.
C19_BadRatingChangesNothing ==
    [][(RatingLine
        /\ parseUserFeedback(
              currentMessages'[Len(currentMessages')].content).isNull) =>
          /\ conversationsFile' = conversationsFile
          /\ pendingFeedback' = pendingFeedback
          /\ remoteFeedback' = remoteFeedback
          /\ isWaitingForFeedback' /\ ~isWaitingForComment']_vars

\* "banana" was typed at the rating prompt, and the prompt is still there.
C19_Witness ==
    /\ cliCall.op = "input" /\ cliCall.kind = "invalid"
    /\ isWaitingForFeedback /\ ~isWaitingForComment
    /\ currentMessages # <<>>
    /\ currentMessages[Len(currentMessages)] = HumanMessage(Banana)

\* The files a start may find: none, one that is not JSON, one that is JSON
\* but no conversation document, and the file of an earlier session.
StartupInit ==
    /\ CliIdle
    /\ conversationsFile \in {AbsentFile, CorruptFile, ForeignFile,
                              EarlierSession(3)}
    /\ now = StartTime
    /\ storeCall = NoStoreCall

StartupNext == CliStart \/ CliInput \/ CliExit

\* The thread manager was not initialized: OPENAI_API_KEY was missing from
\* the environment at start.
CredentialsMissing == ~isReady

\* start ended in process.exit(1), before the prompt loop.
ExitedAtStart == cliCall.op = "start" /\ cliCall.kind = "failed"

\* C21: a start with the required credentials missing exits at once,
\* before the prompt loop, and nothing else ends the process at start: the
\* process has exited at start exactly when the credentials were missing.
C21_ExitIffCredentialsMissing ==
    cliCall.op # "none" => (CredentialsMissing <=> ExitedAtStart)

\* The line the step has read: the message pushed at the start of
\* processUserInput.
LineRead == currentMessages'[Len(currentMessages) + 1].content

\* The rating and comment of the record a step has added: the last remote
\* record when the remote store grew, else the last pending record.
Submitted ==
    IF Len(remoteFeedback') > Len(remoteFeedback)
    THEN [starRating |-> remoteFeedback'[Len(remoteFeedback')].original_rating,
          comment |-> remoteFeedback'[Len(remoteFeedback')].comment]
    ELSE LET feedback == pendingFeedback'[Len(pendingFeedback')].feedback
         IN  [starRating |-> feedback.starRating,
              comment |-> RemoteComment(feedback.starRating,
                                        feedback.comment)]

\* C22: the rating flow of the CLI has two steps.  While it waits for a
\* rating, a line that parses to a rating in 1..5 becomes the pending
\* rating and the CLI waits for a comment, nothing being submitted; while
\* it waits for a comment, the next line, empty or not, is submitted as
\* the comment with the pending rating in exactly one submission, and the
\* CLI is idle afterwards with no pending rating.  The CLI stops waiting
\* for a rating only by a line that parses to a rating in 1..5.
C22_TwoStepRatingFlow ==
    [][/\ (cliCall'.op = "input" /\ isWaitingForFeedback
           /\ ~isWaitingForComment
           /\ RatingAccepted(parseUserFeedback(LineRead))) =>
             /\ pendingRating' = parseUserFeedback(LineRead).rating
             /\ isWaitingForComment' /\ ~isWaitingForFeedback'
             /\ remoteFeedback' = remoteFeedback
             /\ pendingFeedback' = pendingFeedback
       /\ (cliCall'.op = "input" /\ isWaitingForComment) =>
             /\ Len(remoteFeedback') + Len(pendingFeedback')
                  = Len(remoteFeedback) + Len(pendingFeedback) + 1
             /\ Len(remoteFeedback') >= Len(remoteFeedback)
             /\ Len(pendingFeedback') >= Len(pendingFeedback)
             /\ Submitted = [starRating |-> pendingRating,
                             comment |-> RemoteComment(pendingRating,
                                                       Trim(LineRead))]
             /\ ~isWaitingForComment' /\ ~isWaitingForFeedback'
             /\ pendingRating' = 0
       /\ (isWaitingForFeedback /\ ~isWaitingForFeedback') =>
             /\ cliCall'.op = "input" /\ cliCall'.kind = "rating"
             /\ RatingAccepted(parseUserFeedback(LineRead))]_vars

\* Four stars were submitted with an empty comment.
C22_Witness ==
    /\ cliCall.op = "input" /\ cliCall.kind = "comment"
    /\ fbCall.starRating = 4 /\ fbCall.comment = <<>>
    /\ pendingRating = 0 /\ ~isWaitingForComment /\ ~isWaitingForFeedback
    /\ Len(remoteFeedback) + Len(pendingFeedback) = 1

\* C23: in every state of the CLI, isWaitingForFeedback and
\* isWaitingForComment are not both set, and pendingRating is a rating in
\* 1..5 exactly when isWaitingForComment is set and null (0) otherwise,
\* also after turns that end in an error.
C23_FlagsExclusive ==
    /\ ~(isWaitingForFeedback /\ isWaitingForComment)
    /\ isWaitingForComment <=> pendingRating \in 1..5
    /\ ~isWaitingForComment => pendingRating = 0

\* "4" was typed at the rating prompt: the CLI waits for the comment.
C23_Witness ==
    /\ isWaitingForComment /\ pendingRating = 4 /\ ~isWaitingForFeedback
    /\ cliCall.op = "input" /\ cliCall.kind = "rating"

\* C12: an input handler that ends in an error leaves the in-memory message
\* list as it was before the line was typed: the user message it pushed has
\* been taken back.
C12_FailedTurnRolledBack ==
    [][(cliCall'.op = "input" /\ cliCall'.kind = "error") =>
          currentMessages' = currentMessages]_vars

\* A turn failed in a session that holds messages.
C12_Witness ==
    /\ isRunning /\ cliCall.op = "input" /\ cliCall.kind = "error"
    /\ currentThreadId # NullId
    /\ Len(currentMessages) > 0

\* The conversations the store holds under the thread's title.
ThreadConversations(threadId) ==
    {j \in DOMAIN conversationsFile.conversations :
        conversationsFile.conversations[j].title = ThreadTitle(threadId)}

\* C9: the store holds at most one conversation for the current thread,
\* however many turns the thread has had.
C9_OneConversationPerThread ==
    currentThreadId # NullId =>
        Cardinality(ThreadConversations(currentThreadId)) <= 1


-----------------------------------------------------------------------------
(***************************************************************************)
(* The turn and the workflow invocation it awaits.  Here a conversation    *)
(* turn is two steps, the invocation and its return, and time may pass     *)
(* between them; the workflow may also never return.                       *)
(***************************************************************************)

\* The budget of Application.processInput, in milliseconds.
TimeoutMs == 30000

\* processUserInput up to the await of app.processMessageWithThread: the
\* user message is pushed and the workflow invoked.  A thread manager that
\* is not ready makes the call throw at once.
TurnInvoke ==
    /\ isRunning /\ ~inFlight.active
    /\ ~isWaitingForComment /\ ~isWaitingForFeedback
    /\ now < StartTime + MaxInputs
    /\ \E text \in CliInputs :
          IF ~isReady
          THEN /\ TurnStep(text, "error", 0)
               /\ UNCHANGED inFlight
          ELSE /\ currentMessages' = Append(currentMessages,
                                            HumanMessage(text))
               /\ inFlight' = [active |-> TRUE,
                               via |-> "processMessageWithThread",
                               text |-> text, armed |-> FALSE, waited |-> 0]
               /\ UNCHANGED <<currentConversationId, isWaitingForFeedback,
                              isWaitingForComment, pendingRating, cliCall,
                              conversationsFile, now, currentThreadId>>
               /\ UNCHANGED fbVars
    /\ UNCHANGED <<storeCall, isRunning, isReady>>
    /\ UNCHANGED <<parseVars, wfVars, httpVars, authVars>>

\* Application.processInput(messages): the workflow is invoked and raced
\* against the timer.
AppProcessInput ==
    /\ isRunning /\ ~inFlight.active
    /\ now < StartTime + MaxInputs
    /\ inFlight' = [active |-> TRUE, via |-> "processInput", text |-> <<>>,
                    armed |-> TRUE, waited |-> 0]
    /\ UNCHANGED <<currentMessages, currentConversationId,
                   isWaitingForFeedback, isWaitingForComment, pendingRating,
                   isRunning, isReady, currentThreadId, cliCall>>
    /\ UNCHANGED <<parseVars, wfVars, httpVars, fbVars, storeVars, authVars>>

\* Time passes while the invocation is awaited: up to the budget, then
\* beyond it unless a timer is armed, which fires at the budget.
TimePasses ==
    /\ inFlight.active
    /\ inFlight.waited <= TimeoutMs
    /\ ~(inFlight.armed /\ inFlight.waited = TimeoutMs)
    /\ inFlight' = [inFlight EXCEPT !.waited =
                       IF @ = 0 THEN TimeoutMs ELSE TimeoutMs + 1]
    /\ UNCHANGED <<currentMessages, currentConversationId,
                   isWaitingForFeedback, isWaitingForComment, pendingRating,
                   isRunning, isReady, currentThreadId, cliCall>>
    /\ UNCHANGED <<parseVars, wfVars, httpVars, fbVars, storeVars, authVars>>

\* The timer of processInput fires: the race rejects with
\* 'Request timeout (30 seconds)'.
TimerFires ==
    /\ inFlight.active /\ inFlight.armed
    /\ inFlight.waited = TimeoutMs
    /\ inFlight' = NoFlight
    /\ cliCall' = [cliCall EXCEPT !.op = "processInput", !.kind = "timeout",
                                  !.didSave = FALSE]
    /\ now' = now + inFlight.waited + 1
    /\ UNCHANGED <<currentMessages, currentConversationId,
                   isWaitingForFeedback, isWaitingForComment, pendingRating,
                   isRunning, isReady, currentThreadId>>
    /\ UNCHANGED <<conversationsFile, storeCall>>
    /\ UNCHANGED <<parseVars, wfVars, httpVars, fbVars, authVars>>

\* The workflow returns or throws: the turn goes on from its await.
WorkflowReturns ==
    /\ inFlight.active
    /\ IF inFlight.via = "processInput"
       THEN /\ cliCall' = [cliCall EXCEPT !.op = "processInput",
                             !.kind = "resolved", !.didSave = FALSE]
            /\ now' = now + inFlight.waited + 1
            /\ UNCHANGED <<currentMessages, currentConversationId,
                           isWaitingForFeedback, isWaitingForComment,
                           pendingRating, conversationsFile,
                           currentThreadId>>
            /\ UNCHANGED fbVars
       ELSE \E outcome \in WorkflowOutcomes, dt \in Elapsed :
               TurnFinish(currentMessages, inFlight.text, outcome,
                          now + inFlight.waited, dt)
    /\ inFlight' = NoFlight
    /\ UNCHANGED <<storeCall, isRunning, isReady>>
    /\ UNCHANGED <<parseVars, wfVars, httpVars, authVars>>

TurnNext ==
    \/ CliStart
    \/ TurnInvoke
    \/ AppProcessInput
    \/ TimePasses
    \/ TimerFires
    \/ WorkflowReturns

\* C11: no workflow invocation made for a user turn is still awaited when
\* more than the 30-second budget has passed since it was made.
C11_NoTurnBeyondBudget ==
    ~(/\ inFlight.active /\ inFlight.via = "processMessageWithThread"
      /\ inFlight.waited > TimeoutMs)

-----------------------------------------------------------------------------
(***************************************************************************)
(* AuthStore and the authManager cache.                                    *)
(***************************************************************************)

\* Times are in milliseconds.
HourMs == 1000 * 60 * 60
ExpiryHours == 24

NoToken == "null"

\* AuthStore.defaultAuthData
defaultAuthData ==
    [isLoggedIn |-> FALSE, cookies |-> <<>>, token |-> NoToken,
     userData |-> "null", lastLoginTime |-> NoTimestamp]

\* The in-memory cache of authManager as the module creates it.
AuthCacheNew ==
    [isLoggedIn |-> FALSE, cookies |-> <<>>, token |-> NoToken,
     userData |-> "null"]

\* { ...a, ...b }
Merge(a, b) ==
    [f \in DOMAIN a \cup DOMAIN b |-> IF f \in DOMAIN b THEN b[f] ELSE a[f]]

AbsentAuthFile == [state |-> "absent", data |-> defaultAuthData]
AuthDocument(data) == [state |-> "document", data |-> data]

\* loadAuthData as it would be without the expiry check.
loadAuthData_NoExpiry(file, t, io) ==
    IF io.readFails \/ file.state = "absent" THEN defaultAuthData
    ELSE file.data

\* AuthStore.loadAuthData at time t
loadAuthData(file, t, io) ==
    LET data == IF io.readFails \/ file.state = "absent"
                THEN defaultAuthData ELSE file.data
    IN  IF data.lastLoginTime # NoTimestamp
           /\ (t - data.lastLoginTime) > ExpiryHours * HourMs
        THEN defaultAuthData
        ELSE data

\* AuthStore.saveAuthData at time t: the file afterwards.
saveAuthData(file, data, t, io) ==
    IF io.writeFails THEN file
    ELSE AuthDocument(Merge(data, [lastLoginTime |-> t]))

\* AuthStore.clearAuthData: the file afterwards.
clearStoredAuthData(file, io) ==
    IF io.writeFails THEN file ELSE AuthDocument(defaultAuthData)

\* authManager.getAuthData: the cache afterwards, which is also returned.
getAuthData(cache, file, t, io) ==
    Merge(cache, loadAuthData(file, t, io))

\* authManager.setAuthData: [cache, file] afterwards; the cache is returned.
setAuthData(cache, file, newData, t, io) ==
    LET merged == Merge(cache, newData)
    IN  [cache |-> merged, file |-> saveAuthData(file, merged, t, io)]

\* authManager.clearAuthData: [cache, file] afterwards.
clearAuthData(cache, file, io) ==
    [cache |-> AuthCacheNew, file |-> clearStoredAuthData(file, io)]

-----------------------------------------------------------------------------
(***************************************************************************)
(* The auth data on its own: getAuthData, setAuthData, clearAuthData and   *)
(* authStore.loadAuthData called in any order, each some time after the    *)
(* call before it.                                                         *)
(***************************************************************************)

\* Auth calls made in one run of the model.
MaxAuthOps == 3

\* Time between two calls: none, 24 hours, a millisecond more, 30 hours.
AuthElapsed ==
    {0, ExpiryHours * HourMs, ExpiryHours * HourMs + 1, 30 * HourMs}

\* What a login stores, and an update of the token alone.
AuthUpdates ==
    {[isLoggedIn |-> TRUE, cookies |-> <<"sid">>, token |-> "t1",
      userData |-> "user"],
     [token |-> "t2"]}

\* No response of the backend.
NoResponse == [kind |-> "none", cookies |-> <<>>, token |-> NoToken]

NoAuthCall ==
    [n |-> 0, op |-> "none", at |-> 0, io |-> IoOk,
     result |-> defaultAuthData, response |-> NoResponse]

AuthCall(op, t, io, result) ==
    [n |-> authCall.n + 1, op |-> op, at |-> t, io |-> io, result |-> result,
     response |-> NoResponse]

AuthIdle ==
    /\ authFile = AbsentAuthFile
    /\ authData = AuthCacheNew
    /\ authCall = NoAuthCall

\* authStore.loadAuthData()
AuthLoad ==
    /\ authCall.n < MaxAuthOps
    /\ \E d \in AuthElapsed, readFails \in BOOLEAN :
          LET io == [IoOk EXCEPT !.readFails = readFails]
          IN  /\ now' = now + d
              /\ authCall' = AuthCall("load", now + d, io,
                                      loadAuthData(authFile, now + d, io))
    /\ UNCHANGED <<authFile, authData>>
    /\ UNCHANGED <<conversationsFile, storeCall>>
    /\ UNCHANGED <<parseVars, wfVars, httpVars, fbVars, cliVars>>

\* getAuthData()
AuthGet ==
    /\ authCall.n < MaxAuthOps
    /\ \E d \in AuthElapsed, readFails \in BOOLEAN :
          LET io  == [IoOk EXCEPT !.readFails = readFails]
              out == getAuthData(authData, authFile, now + d, io)
          IN  /\ now' = now + d
              /\ authData' = out
              /\ authCall' = AuthCall("get", now + d, io, out)
    /\ UNCHANGED authFile
    /\ UNCHANGED <<conversationsFile, storeCall>>
    /\ UNCHANGED <<parseVars, wfVars, httpVars, fbVars, cliVars>>

\* setAuthData(newData)
AuthSet ==
    /\ authCall.n < MaxAuthOps
    /\ \E d \in AuthElapsed, newData \in AuthUpdates, writeFails \in BOOLEAN :
          LET io  == [IoOk EXCEPT !.writeFails = writeFails]
              out == setAuthData(authData, authFile, newData, now + d, io)
          IN  /\ now' = now + d
              /\ authData' = out.cache
              /\ authFile' = out.file
              /\ authCall' = AuthCall("set", now + d, io, out.cache)
    /\ UNCHANGED <<conversationsFile, storeCall>>
    /\ UNCHANGED <<parseVars, wfVars, httpVars, fbVars, cliVars>>

\* clearAuthData()
AuthClear ==
    /\ authCall.n < MaxAuthOps
    /\ \E d \in AuthElapsed, writeFails \in BOOLEAN :
          LET io  == [IoOk EXCEPT !.writeFails = writeFails]
              out == clearAuthData(authData, authFile, io)
          IN  /\ now' = now + d
              /\ authData' = out.cache
              /\ authFile' = out.file
              /\ authCall' = AuthCall("clear", now + d, io, out.cache)
    /\ UNCHANGED <<conversationsFile, storeCall>>
    /\ UNCHANGED <<parseVars, wfVars, httpVars, fbVars, cliVars>>

AuthNext == AuthLoad \/ AuthGet \/ AuthSet \/ AuthClear

\* The file holds a login time more than 24 hours before the time t.
StoredExpired(t) ==
    /\ authFile.state = "document"
    /\ authFile.data.lastLoginTime # NoTimestamp
    /\ t - authFile.data.lastLoginTime > ExpiryHours * HourMs

LoggedOut(data) ==
    /\ ~data.isLoggedIn /\ data.cookies = <<>> /\ data.token = NoToken

\* C10: loadAuthData returns the default logged-out structure when the
\* stored lastLoginTime is more than 24 hours before the load, and the
\* stored data when it is not; getAuthData, which reads through it, returns
\* logged-out data in the first case, and neither ever returns a token
\* together with a login time more than 24 hours old.
C10_ExpiredAuthIsDefault ==
    /\ (authCall.op = "load" /\ StoredExpired(authCall.at)) =>
          authCall.result = defaultAuthData
    /\ (/\ authCall.op = "load" /\ ~StoredExpired(authCall.at)
        /\ ~authCall.io.readFails /\ authFile.state = "document") =>
          authCall.result = authFile.data
    /\ (authCall.op = "get" /\ StoredExpired(authCall.at)) =>
          LoggedOut(authCall.result)
    /\ (authCall.op \in {"load", "get"}
        /\ authCall.result.token # NoToken) =>
          /\ authCall.result.lastLoginTime # NoTimestamp
          /\ authCall.at - authCall.result.lastLoginTime
                <= ExpiryHours * HourMs

\* getAuthData ran a millisecond after a stored token's 24 hours and
\* returned no token.
C10_Witness ==
    /\ authCall.op = "get" /\ ~authCall.io.readFails
    /\ authFile.state = "document" /\ authFile.data.token = "t1"
    /\ authCall.at - authFile.data.lastLoginTime = ExpiryHours * HourMs + 1
    /\ LoggedOut(authCall.result)

-----------------------------------------------------------------------------
(***************************************************************************)
(* Switching threads.  The remote trace store answers getThreadHistory     *)
(* with the thread's entries, each a role and a content, or with none.     *)
(***************************************************************************)

RemoteEntry(role, content) == [role |-> role, content |-> content]

\* What the remote store holds for a thread: nothing, or one exchange.
RemoteHistories ==
    {<<>>, <<RemoteEntry("user", Hi), RemoteEntry("assistant", Yo)>>}

\* history.map: user entries become HumanMessage, assistant entries
\* AIMessage, in order.
FromRemote(msg) ==
    IF msg.role = "user" THEN HumanMessage(msg.content)
    ELSE AIMessage(msg.content)

\* ConversationStore.getConversationById
getConversationById(file, conversationId, io) ==
    LET conversations == loadConversations(file, io)
        index == FindIndex(conversations, conversationId, 1)
    IN  IF index # 0 THEN conversations[index] ELSE NoConversation

\* allConversations.find(conv => conv.title === targetTitle)
RECURSIVE FindByTitle(_, _, _)
FindByTitle(conversations, title, j) ==
    IF j > Len(conversations) THEN NoConversation
    ELSE IF conversations[j].title = title THEN conversations[j]
    ELSE FindByTitle(conversations, title, j + 1)

\* threadId.startsWith('thread-')
StartsWithThread(threadId) == threadId.kind = "thread"

\* The thread ids a user asks for: a thread of an earlier session, the
\* current thread, a thread known to the remote store only (by its
\* "thread-<id>" token or by a UUID), and the id of a stored conversation.
SwitchTargets ==
    {ThreadId(0), ThreadId(7), Uuid(7), MsId(1)}
        \cup (IF currentThreadId # NullId THEN {currentThreadId} ELSE {})

\* CLIInterface.switchToSpecificThread(threadId)
switchToSpecificThread(requested) ==
    /\ isRunning /\ now < StartTime + MaxInputs
    /\ \E history \in RemoteHistories :
          LET byId    == getConversationById(conversationsFile, requested,
                                             IoOk)
              byTitle == FindByTitle(
                            loadConversations(conversationsFile, IoOk),
                            ThreadTitle(requested), 1)
              conversation ==
                  IF byId = NoConversation /\ StartsWithThread(requested)
                  THEN byTitle ELSE byId
              threadId == IF byId = NoConversation
                             /\ StartsWithThread(requested)
                             /\ byTitle # NoConversation
                          THEN byTitle.id ELSE requested
              messages == [j \in DOMAIN history |-> FromRemote(history[j])]
          IN  /\ currentThreadId' = threadId
              /\ IF conversation # NoConversation
                 THEN /\ currentMessages' = conversation.messages
                      /\ currentConversationId' = conversation.id
                      /\ UNCHANGED conversationsFile
                      /\ cliCall' = [cliCall EXCEPT !.op = "switch",
                                       !.kind = "local", !.didSave = FALSE]
                 ELSE IF Len(history) > 0
                 THEN /\ conversationsFile' =
                            addConversation(conversationsFile, messages,
                                            ThreadTitle(threadId), now,
                                            IoOk).file
                      /\ currentMessages' = messages
                      /\ currentConversationId' = threadId
                      /\ cliCall' = [cliCall EXCEPT !.op = "switch",
                                       !.kind = "remote", !.didSave = FALSE]
                 ELSE /\ UNCHANGED <<currentMessages, currentConversationId,
                                     conversationsFile>>
                      /\ cliCall' = [cliCall EXCEPT !.op = "switch",
                                       !.kind = "absent", !.didSave = FALSE]
    /\ now' = now + 1
    /\ UNCHANGED <<storeCall, isWaitingForFeedback, isWaitingForComment,
                   pendingRating, isRunning, isReady, inFlight>>
    /\ UNCHANGED <<parseVars, wfVars, httpVars, fbVars, authVars>>

\* One pass of mainLoop with a line that asks for a thread.
CliSwitchThread ==
    \E requested \in SwitchTargets : switchToSpecificThread(requested)

SwitchNext == CliStart \/ CliSwitchThread \/ CliInput \/ CliExit

\* The stored conversations the current conversation id names.
CurrentStored ==
    {j \in DOMAIN conversationsFile.conversations :
        conversationsFile.conversations[j].id = currentConversationId}

\* The messages as the file keeps them, without their timestamps.
StoredContents(messages) ==
    [j \in DOMAIN messages |->
        [type |-> messages[j].type, content |-> messages[j].content]]

\* C20: after a switch to a thread that was absent locally and whose
\* history the remote store returned, the thread's messages (user entries
\* as human, assistant entries as AI, in order) are in the local store and
\* current, and the current conversation id names the stored conversation.
C20_SwitchedThreadIsStored ==
    (cliCall.op = "switch" /\ cliCall.kind = "remote") =>
        /\ currentMessages = Turn(Hi, Yo)
        /\ StoredContents(conversationsFile.conversations[1].messages)
              = <<[type |-> "human", content |-> Hi],
                  [type |-> "ai", content |-> Yo]>>
        /\ CurrentStored # {}

-----------------------------------------------------------------------------
(***************************************************************************)
(* The workflow graph from resultNode on.  The graph state keeps the       *)
(* three feedback flags, config.metadata.isInteractive and the last        *)
(* message; a step runs resultNode and then its conditional edge.          *)
(***************************************************************************)

\* Steps of resultNode one run of the model follows.
MaxResultRuns == 4

\* The last message of the state: its type, its text, and whether it
\* carries the rating instructions.
LastMessage(type, content) == [type |-> type, content |-> content]

WorkflowIdle ==
    [node |-> "none", conclusionGenerated |-> FALSE,
     feedbackRequested |-> FALSE, feedbackSubmitted |-> FALSE,
     isInteractive |-> FALSE, last |-> LastMessage("none", <<>>),
     runs |-> 0, appended |-> 0]

WfIdle == workflow = WorkflowIdle

HttpIdle == httpRequests = <<>>

\* FeedbackService.processUserFeedback(userInput, aiResponse, runId): the
\* service afterwards and result.success.
processUserFeedback(svc, text, runId, env) ==
    LET result == parseUserFeedback(text)
    IN  IF result.isNull THEN [svc |-> svc, success |-> FALSE]
        ELSE IF result.rating < 1 \/ result.rating > 5
        THEN [svc |-> svc, success |-> FALSE]
        ELSE LET out == collectFeedback(
                           svc,
                           [starRating |-> result.rating,
                            comment |-> result.comment, key |-> "",
                            runId |-> runId],
                           NoThreadManager, env)
             IN  [svc |-> out.svc, success |-> ~out.result.threw]

\* An update of the graph state: the channels a node returns, the others
\* keep their value (reducer (x, y) => y ?? x).
Update(state, fields) ==
    [k \in DOMAIN state |-> IF k \in DOMAIN fields THEN fields[k]
                            ELSE state[k]]

Appended(state, content) ==
    [last |-> LastMessage("ai", content), appended |-> state.appended + 1]

ErrorText == <<"Error">>
PromptText == <<"Please provide a rating from 1-5 stars.">>

\* generateConclusion: concludeTool answers with a conclusion that asks
\* for a rating, or throws.
generateConclusion(state, concludes) ==
    IF concludes
    THEN Update(state, Appended(state, RatingResponse)
                       @@ [conclusionGenerated |-> TRUE,
                           feedbackRequested |-> TRUE])
    ELSE Update(state, Appended(state, ErrorText)
                       @@ [conclusionGenerated |-> TRUE])

\* generateFeedbackPrompt
generateFeedbackPrompt(state) ==
    IF state.last.type = "ai" /\ Includes(state.last.content, RatePart)
    THEN Update(state, [feedbackRequested |-> TRUE])
    ELSE Update(state, Appended(state, <<RatePart>>)
                       @@ [feedbackRequested |-> TRUE])

\* processFeedbackResponse, given result.success.
processFeedbackResponse(state, success) ==
    IF success
    THEN Update(state, Appended(state, <<"Thank you">>)
                       @@ [feedbackRequested |-> FALSE,
                           feedbackSubmitted |-> TRUE])
    ELSE Update(state, Appended(state, PromptText)
                       @@ [feedbackRequested |-> TRUE])

\* resultNode, given what processUserFeedback and concludeTool do.
resultNode(state, success, concludes) ==
    IF state.last.type = "human" /\ state.feedbackRequested
    THEN processFeedbackResponse(state, success)
    ELSE IF ~state.conclusionGenerated
    THEN generateConclusion(state, concludes)
    ELSE IF state.conclusionGenerated /\ state.feedbackRequested
    THEN Update(state, [feedbackRequested |-> TRUE])
    ELSE generateFeedbackPrompt(state)

\* The conditional edge of resultNode.
ResultEdge(state) ==
    IF state.feedbackSubmitted THEN "__end__"
    ELSE IF state.feedbackRequested /\ state.conclusionGenerated
    THEN IF state.isInteractive THEN "resultNode" ELSE "__end__"
    ELSE IF state.conclusionGenerated /\ ~state.feedbackRequested
    THEN "resultNode"
    ELSE IF state.feedbackRequested /\ ~state.conclusionGenerated
    THEN "resultNode"
    ELSE "__end__"

\* The state in which a run enters resultNode: any flags, interactive or
\* not, the last message a line of the user or an answer of the agent.
WfInit ==
    \E cg \in BOOLEAN, fr \in BOOLEAN, fs \in BOOLEAN, ia \in BOOLEAN,
       last \in {LastMessage("human", <<"4">>), LastMessage("human", Banana),
                 LastMessage("ai", Yo), LastMessage("ai", RatingResponse)} :
        workflow = [WorkflowIdle EXCEPT
                      !.node = "resultNode", !.conclusionGenerated = cg,
                      !.feedbackRequested = fr, !.feedbackSubmitted = fs,
                      !.isInteractive = ia, !.last = last]

\* One step of the graph: resultNode, then its conditional edge.
WfResultNode ==
    /\ workflow.node = "resultNode"
    /\ workflow.runs < MaxResultRuns
    /\ \E concludes \in BOOLEAN, remote \in {"ok", "network"} :
          LET env == Env(remote, FALSE, NullId)
              svc == initialize(SvcAtCall, env)
              responds == workflow.last.type = "human"
                          /\ workflow.feedbackRequested
              fb  == IF responds
                     THEN processUserFeedback(svc, workflow.last.content,
                                              NullRunId, env)
                     ELSE [svc |-> svc, success |-> FALSE]
              after == resultNode(workflow, fb.success, concludes)
          IN  /\ SetSvc(fb.svc)
              /\ workflow' = [after EXCEPT !.node = ResultEdge(after),
                                           !.runs = workflow.runs + 1]
    /\ UNCHANGED <<apiKey, fbCall, fbResult>>
    /\ UNCHANGED <<parseVars, storeVars, cliVars, authVars, httpVars>>

WfNext == WfResultNode

-----------------------------------------------------------------------------
(***************************************************************************)
(* mainLoop: every line goes through handleSpecialCommands first, and only *)
(* a line it does not handle reaches processUserInput.                     *)
(***************************************************************************)

ThreadWord == <<"t", "h", "r", "e", "a", "d">>
ThreadDash == ThreadWord \o <<"-">>
ExitLine == <<"e", "x", "i", "t">>
ClearLine == <<"c", "l", "e", "a", "r">>
HistoryLine == <<"h", "i", "s", "t", "o", "r", "y">>
ThreadsLine == ThreadWord \o <<"s">>
ThreadHistoryLine == ThreadDash \o HistoryLine
SwitchThreadLine == <<"s", "w", "i", "t", "c", "h", "-">> \o ThreadWord

\* The lines that are special commands other than exit, as typed.
CommandLines ==
    {ClearLine, <<" ", "C", "l", "e", "a", "r">>, HistoryLine, ThreadWord,
     ThreadsLine, ThreadHistoryLine, SwitchThreadLine,
     ThreadDash \o <<"7">>, ThreadDash \o <<"0">>}

\* The lines typed at the prompt.
Lines == CommandLines \cup {ExitLine, Hi, <<"4">>, Banana}

\* String.prototype.toLowerCase
toLowerCase(s) == [j \in DOMAIN s |-> LowerOf(s[j])]

\* String.prototype.startsWith
StartsWith(s, prefix) ==
    Len(s) >= Len(prefix) /\ SubSeq(s, 1, Len(prefix)) = prefix

\* handleSpecialCommands without the default branch of the switch.
handleSpecialCommands_NoDefault(input) ==
    LET command == toLowerCase(Trim(input))
    IN  IF command = ExitLine THEN "exit"
        ELSE IF command = ClearLine THEN "clear"
        ELSE IF command \in {HistoryLine, ThreadWord, ThreadHistoryLine,
                             ThreadsLine} THEN "show"
        ELSE IF command = SwitchThreadLine THEN "switch-thread"
        ELSE "none"

\* handleSpecialCommands: which case of the switch takes the line; "none"
\* is the return of false.
handleSpecialCommands(input) ==
    LET command == toLowerCase(Trim(input))
    IN  IF command = ExitLine THEN "exit"
        ELSE IF command = ClearLine THEN "clear"
        ELSE IF command \in {HistoryLine, ThreadWord, ThreadHistoryLine,
                             ThreadsLine} THEN "show"
        ELSE IF command = SwitchThreadLine THEN "switch-thread"
        ELSE IF StartsWith(command, ThreadDash) THEN "thread-"
        ELSE "none"

\* The identifier a line "thread-<digit>" names.
ThreadOfLine(input) ==
    ThreadId(parseInt(toLowerCase(Trim(input))[Len(ThreadDash) + 1]))

\* The lines 'history', 'thread', 'threads' and 'thread-history', and a
\* 'switch-thread' that is cancelled or finds no conversation: output only.
CliShow ==
    /\ isRunning /\ now < StartTime + MaxInputs
    /\ cliCall' = [cliCall EXCEPT !.op = "show", !.kind = "",
                                  !.didSave = FALSE]
    /\ now' = now + 1
    /\ UNCHANGED <<currentMessages, currentConversationId,
                   isWaitingForFeedback, isWaitingForComment, pendingRating,
                   isRunning, isReady, currentThreadId, inFlight>>
    /\ UNCHANGED <<conversationsFile, storeCall>>
    /\ UNCHANGED <<parseVars, wfVars, httpVars, fbVars, authVars>>

\* switchThread: the list of conversations, then the selection.
switchThread ==
    IF Len(loadConversations(conversationsFile, IoOk)) = 0
    THEN CliShow
    ELSE \E cancel \in BOOLEAN :
            IF cancel THEN CliShow ELSE CliSwitchThread

\* One pass of mainLoop.
MainLoop ==
    \E input \in Lines :
       LET handled == handleSpecialCommands(input)
       IN  CASE handled = "exit" -> CliExit
             [] handled = "clear" -> CliClear
             [] handled = "show" -> CliShow
             [] handled = "switch-thread" -> switchThread
             [] handled = "thread-" ->
                   switchToSpecificThread(ThreadOfLine(input))
             [] OTHER -> processUserInput(input)

CommandsNext == CliStart \/ MainLoop

\* What handling a special command other than exit leaves in cliCall.
CommandOps == {"clear", "show", "switch"}

\* C27: a special command (clear, history, thread, threads, switch-thread,
\* thread-history, thread-<id>) leaves isWaitingForFeedback,
\* isWaitingForComment and pendingRating as they were, whatever the
\* feedback state and also when it clears or replaces the conversation,
\* and no command line is ever a message of the conversation.
C27_CommandsKeepFeedbackState ==
    [][/\ cliCall'.op \in CommandOps =>
             UNCHANGED <<isWaitingForFeedback, isWaitingForComment,
                         pendingRating>>
       /\ \A j \in DOMAIN currentMessages' :
             currentMessages'[j].content \notin CommandLines]_vars

\* The conversation has been cleared or replaced by a command while a
\* rating was awaited.
C27_Witness ==
    /\ isWaitingForFeedback
    /\ \/ cliCall.op = "clear" /\ currentMessages = <<>>
       \/ cliCall.op = "switch" /\ cliCall.kind = "local"

-----------------------------------------------------------------------------
(***************************************************************************)
(* The tools that talk to the backend: login_funder, and the three that    *)
(* need a login.  httpRequests lists what they send, with the response.    *)
(***************************************************************************)

LoginTools ==
    {"get_funders_list", "interactive_get_funders", "authenticated_request"}

\* What the backend answers to the login: a 2xx response with cookies and
\* with or without a token in the body, an error response, no answer, or
\* the request is not sent at all.
LoginResponses ==
    {[kind |-> "2xx", cookies |-> <<"sid">>, token |-> "t1"],
     [kind |-> "2xx", cookies |-> <<"sid2">>, token |-> NoToken],
     [kind |-> "error response", cookies |-> <<>>, token |-> NoToken],
     [kind |-> "network error", cookies |-> <<>>, token |-> NoToken],
     [kind |-> "request error", cookies |-> <<>>, token |-> NoToken]}

\* What the backend answers to a request of the other tools.
RequestResponses ==
    {[NoResponse EXCEPT !.kind = k] : k \in {"2xx", "error response"}}

NoAuthorization == <<>>

\* Time between two calls of the tools: none, 24 hours, a millisecond more.
ToolElapsed == {0, ExpiryHours * HourMs, ExpiryHours * HourMs + 1}

\* config.headers['Authorization'] when the token is truthy
Authorization(token) ==
    IF token # NoToken THEN <<"Bearer", token>> ELSE NoAuthorization

Request(tool, authorization, response) ==
    [tool |-> tool, authorization |-> authorization, response |-> response]

\* The login check of the tools as it would be if it refused nothing.
NotLoggedIn_Never(data) == FALSE

\* !authData.isLoggedIn
NotLoggedIn(data) == ~data.isLoggedIn

\* loginTool's catch as it would be if it reset the cache only.
loginFailed_CacheOnly(cache, file, io) ==
    [cache |-> AuthCacheNew, file |-> file]

\* loginTool's catch: clearAuthData()
loginFailed(cache, file, io) == clearAuthData(cache, file, io)

\* login_funder: the request, then setAuthData on a 2xx response and
\* clearAuthData on any error.
ToolLogin ==
    /\ authCall.n < MaxAuthOps
    /\ \E d \in ToolElapsed, response \in LoginResponses,
          writeFails \in BOOLEAN :
          LET io  == [IoOk EXCEPT !.writeFails = writeFails]
              out == IF response.kind = "2xx"
                     THEN setAuthData(authData, authFile,
                             [isLoggedIn |-> TRUE,
                              cookies |-> response.cookies,
                              token |-> response.token,
                              userData |-> "user"], now + d, io)
                     ELSE loginFailed(authData, authFile, io)
          IN  /\ now' = now + d
              /\ httpRequests' =
                    Append(httpRequests,
                           Request("login_funder", NoAuthorization, response))
              /\ authData' = out.cache
              /\ authFile' = out.file
              /\ authCall' = [AuthCall("login", now + d, io, out.cache)
                                 EXCEPT !.response = response]
    /\ UNCHANGED <<conversationsFile, storeCall>>
    /\ UNCHANGED <<parseVars, wfVars, fbVars, cliVars>>

\* get_funders_list, interactive_get_funders and authenticated_request:
\* getAuthData, the login check, then the request.
ToolRequest ==
    /\ authCall.n < MaxAuthOps
    /\ \E tool \in LoginTools, d \in ToolElapsed, readFails \in BOOLEAN,
          response \in RequestResponses :
          LET io  == [IoOk EXCEPT !.readFails = readFails]
              out == getAuthData(authData, authFile, now + d, io)
          IN  /\ now' = now + d
              /\ authData' = out
              /\ IF NotLoggedIn(out)
                 THEN /\ UNCHANGED httpRequests
                      /\ authCall' = AuthCall(tool, now + d, io, out)
                 ELSE /\ httpRequests' =
                            Append(httpRequests,
                                   Request(tool, Authorization(out.token),
                                           response))
                      /\ authCall' = [AuthCall(tool, now + d, io, out)
                                         EXCEPT !.response = response]
    /\ UNCHANGED authFile
    /\ UNCHANGED <<conversationsFile, storeCall>>
    /\ UNCHANGED <<parseVars, wfVars, fbVars, cliVars>>

ToolsNext == ToolLogin \/ ToolRequest \/ AuthGet \/ AuthClear

\* The stored auth data as a load at time t reads them.
StoredAt(t) == loadAuthData(authFile, t, IoOk)

\* C29: a tool that needs a login sends no request when the auth data read
\* at call time have isLoggedIn false (no login yet, data cleared, login
\* older than 24 hours, file unreadable) and answers that there is no login;
\* a request it sends carries "Bearer <token>" of the token read, if any.
C29_NoRequestWithoutLogin ==
    [][(authCall'.n = authCall.n + 1 /\ authCall'.op \in LoginTools) =>
          /\ ~authCall'.result.isLoggedIn =>
                /\ httpRequests' = httpRequests
                /\ authCall'.response = NoResponse
          /\ (authCall'.io.readFails
                \/ ~StoredAt(authCall'.at).isLoggedIn) =>
                httpRequests' = httpRequests
          /\ httpRequests' # httpRequests =>
                /\ Len(httpRequests') = Len(httpRequests) + 1
                /\ LET sent == httpRequests'[Len(httpRequests')]
                       token == StoredAt(authCall'.at).token
                   IN  /\ sent.tool = authCall'.op
                       /\ token # NoToken =>
                             sent.authorization = <<"Bearer", token>>
                       /\ token = NoToken =>
                             sent.authorization = NoAuthorization]_vars

\* A tool was refused on a login older than 24 hours whose token is still
\* in the file.
C29_Witness ==
    /\ authCall.op \in LoginTools /\ ~authCall.io.readFails
    /\ authFile.state = "document" /\ authFile.data.isLoggedIn
    /\ authFile.data.token = "t1"
    /\ StoredExpired(authCall.at)
    /\ authCall.response = NoResponse
    /\ \A j \in DOMAIN httpRequests : httpRequests[j].tool = "login_funder"

\* The login request raised an error.
LoginRaised(call) ==
    call.op = "login" /\ call.response.kind # "2xx"

\* The login request was answered with a 2xx response.
LoginSucceeded(call) ==
    call.op = "login" /\ call.response.kind = "2xx"

\* The calls that read the auth data through getAuthData.
Readers == {"get"} \cup LoginTools

-----------------------------------------------------------------------------
(***************************************************************************)
(* Specifications.  Each runs one part of the program; the variables of    *)
(* the other parts keep their idle values.                                 *)
(***************************************************************************)

\* parseUserFeedback applied to one input.
InitParse ==
    ParseInit /\ WfIdle /\ HttpIdle /\ FbIdle /\ StoreIdle /\ CliIdle /\ AuthIdle

SpecParse == InitParse /\ [][ParseNext]_vars

\* The feedback service: initialize and collectFeedback in any order.
InitFeedback == FbInit /\ ParseIdle /\ WfIdle /\ HttpIdle /\ StoreIdle /\ CliIdle /\ AuthIdle

SpecFeedback == InitFeedback /\ [][FbNext]_vars

\* The conversation store: add, update and clear in any order.
InitStore == StoreInit /\ ParseIdle /\ WfIdle /\ HttpIdle /\ FbIdle /\ CliIdle /\ AuthIdle

SpecStore == InitStore /\ [][StoreNext]_vars

\* The conversation manager: save and restore in any order.
InitRoundTrip == RoundTripInit /\ ParseIdle /\ WfIdle /\ HttpIdle /\ FbIdle /\ AuthIdle

SpecRoundTrip == InitRoundTrip /\ [][RoundTripNext]_vars

\* A CLI session on the file an earlier session left.
InitCLI == CliInit /\ FbInit /\ ParseIdle /\ WfIdle /\ HttpIdle /\ AuthIdle

SpecCLI == InitCLI /\ [][CliNext]_vars

\* The auth data: get, set, clear and load in any order.
InitAuth ==
    /\ authFile = AbsentAuthFile /\ authData = AuthCacheNew
    /\ authCall = NoAuthCall
    /\ StoreIdle /\ ParseIdle /\ WfIdle /\ HttpIdle /\ FbIdle /\ CliIdle

SpecAuth == InitAuth /\ [][AuthNext]_vars

\* The tools of the backend, from a process that has no auth file yet.
InitTools ==
    /\ authFile = AbsentAuthFile /\ authData = AuthCacheNew
    /\ authCall = NoAuthCall
    /\ StoreIdle /\ ParseIdle /\ WfIdle /\ HttpIdle /\ FbIdle /\ CliIdle

SpecTools == InitTools /\ [][ToolsNext]_vars

\* A CLI session whose turns wait for the workflow.
InitTurn == CliInit /\ FbInit /\ ParseIdle /\ WfIdle /\ HttpIdle /\ AuthIdle

SpecTurn == InitTurn /\ [][TurnNext]_vars

\* The conversation store on files of every kind.
InitLoad == LoadInit /\ ParseIdle /\ WfIdle /\ HttpIdle /\ FbIdle /\ CliIdle /\ AuthIdle

SpecLoad == InitLoad /\ [][LoadNext]_vars

\* The feedback service called with run ids, thread managers and trace
\* contexts of every kind, and its pending collection cleared.
InitFeedbackContext ==
    FbInit /\ ParseIdle /\ WfIdle /\ HttpIdle /\ StoreIdle /\ CliIdle /\ AuthIdle

SpecFeedbackContext == InitFeedbackContext /\ [][FbContextNext]_vars

\* A CLI session in which the user also switches threads.
\* C26: a switch to an identifier found neither in the local store nor in
\* the remote trace store leaves the current messages, the current
\* conversation id and the thread manager's current thread id as they were.
C26_FailedSwitchChangesNothing ==
    [][(cliCall'.op = "switch" /\ cliCall'.kind = "absent") =>
          /\ currentMessages' = currentMessages
          /\ currentConversationId' = currentConversationId
          /\ currentThreadId' = currentThreadId]_vars

\* C25: once ThreadManager.initialize has succeeded the current thread id
\* is never null, and a line processed by processUserInput (a turn, a
\* rating or a comment; no thread switch) leaves the current thread id as
\* it was, so consecutive turns run under one thread id.
C25_TurnsKeepThread ==
    [][/\ isReady' => currentThreadId' # NullId
       /\ cliCall'.op = "input" => currentThreadId' = currentThreadId]_vars

\* A turn has been answered under an initialized thread manager.
C25_Witness ==
    /\ isReady /\ cliCall.op = "input" /\ cliCall.kind = "turn"
    /\ currentThreadId # NullId

InitSwitch == CliInit /\ FbInit /\ ParseIdle /\ WfIdle /\ HttpIdle /\ AuthIdle

SpecSwitch == InitSwitch /\ [][SwitchNext]_vars

\* A CLI session whose every line goes through mainLoop.
InitCommands == CliInit /\ FbInit /\ ParseIdle /\ WfIdle /\ HttpIdle /\ AuthIdle

SpecCommands == InitCommands /\ [][CommandsNext]_vars

\* A CLI session started on a conversation file of any kind.
InitStartup == StartupInit /\ FbInit /\ ParseIdle /\ WfIdle /\ HttpIdle /\ AuthIdle

SpecStartup == InitStartup /\ [][StartupNext]_vars

\* One run of the workflow graph from resultNode on.
InitWorkflow ==
    /\ WfInit /\ FbInit /\ HttpIdle
    /\ ParseIdle /\ StoreIdle /\ CliIdle /\ AuthIdle

SpecWorkflow == InitWorkflow /\ [][WfNext]_vars

=============================================================================
